---- MODULE Spec2Model ----
(***************************************************************************)
(* puffin: the simulated command (FuncCmd) of the function-backed Exec,    *)
(* its router (Mux), its path lookup and its lockable I/O channel.         *)
(*                                                                         *)
(* Strings the code inspects character by character (paths, names,        *)
(* patterns) are sequences of one-character strings; error values are the  *)
(* strings their Error() method renders.                                   *)
(***************************************************************************)
EXTENDS Integers, Sequences, FiniteSets, TLC

VARIABLES
  bins,          \* FuncExec.bins, fixed once NewFuncExec returns
  mux,           \* FuncExec.mux: a nil *Mux, or its matchers in order
  hasCtx,        \* FuncCmd.ctx != nil (CommandContext), fixed at construction
  ctxDone,       \* ctx.Done() is closed (the deadline fired / cancel was called)
  path,          \* FuncCmd.path
  args,          \* FuncCmd.args
  env,           \* FuncCmd.env: a nil map, or the overrides by name
  envs,          \* FuncExec.envs, fixed once NewFuncExec returns
  err,           \* FuncCmd.err
  startErr,      \* FuncCmd.startErr
  process,       \* FuncCmd.process: <<>> is nil, <<pid>> is &os.Process{Pid: pid}
  processState,  \* FuncCmd.processState != nil
  stdin,         \* FuncCmd.stdin: the *lockableBuffer it holds, NilRW for nil
  stdout,        \* FuncCmd.stdout
  stderr,        \* FuncCmd.stderr
  sinks,         \* contents of the underlying readers/writers, by identity
  exitCode,      \* FuncCmd.exitCode, a channel of capacity 1
  ctxErr,        \* FuncCmd.ctxErr, a channel of capacity 1
  h,             \* the handler goroutine of Start
  w,             \* the watcher goroutine of Start
  caller,        \* the calling goroutine: what it is blocked in, if anything
  ret,           \* the last call that returned an error value, and that value
  out,           \* the last call that returned another value, and that value
  hist           \* history of the run, read by the properties only

vars == <<bins, mux, hasCtx, ctxDone, path, args, env, envs, err, startErr, process, processState,
          stdin, stdout, stderr, sinks, exitCode, ctxErr, h, w, caller, ret, out, hist>>

----------------------------------------------------------------------------
(* Bounds of the model *)

\* calls the caller makes on one command
MaxCalls == 3

\* registrations made on one router with HandleFunc
MaxMatchers == 2

\* entries of an allow-list of binaries
MaxBins == 2

----------------------------------------------------------------------------
(* Program constants and error values *)

PidMax == 32768

NoErr == "<nil>"
ErrNoCommand == "exec: no command"
ErrAlreadyStarted == "exec: already started"
ErrNotStarted == "exec: not started"
ErrWaitCalled == "exec: Wait was already called"
ErrStartFailure == "exit status 1"
CtxErrValue == "context deadline exceeded"

RECURSIVE Cat(_)
Cat(s) == IF s = <<>> THEN "" ELSE s[1] \o Cat(Tail(s))

ErrNotFound(file) ==
  "exec: \"" \o Cat(file) \o "\": executable file not found in $PATH"
ErrNoSuchFile(file) ==
  "exec: \"" \o Cat(file) \o "\": stat " \o Cat(file) \o ": no such file or directory"

\* the failure of Wait without the status in it
ExitErrorGeneric(n) == "exit status 1"

\* fmt.Errorf("exit status %d", exitCode)
ExitError(n) == "exit status " \o ToString(n)

----------------------------------------------------------------------------
(* Strings and paths *)

Star == <<"*">>

Contains(list, x) == \E i \in 1..Len(list) : list[i] = x

RECURSIVE StripSlashes(_)
StripSlashes(s) ==
  IF Len(s) > 0 /\ s[Len(s)] = "/" THEN StripSlashes(SubSeq(s, 1, Len(s) - 1)) ELSE s

LastSlash(s) ==
  LET I == {i \in 1..Len(s) : s[i] = "/"}
  IN  IF I = {} THEN 0 ELSE CHOOSE i \in I : \A j \in I : j <= i

\* filepath.Base
Base(p) ==
  IF p = <<>> THEN <<".">>
  ELSE LET s == StripSlashes(p)
           q == SubSeq(s, LastSlash(s) + 1, Len(s))
       IN  IF q = <<>> THEN <<"/">> ELSE q

----------------------------------------------------------------------------
(* Path lookup *)

FirstBin(bs, file) ==
  LET I == {i \in 1..Len(bs) : Base(bs[i]) = file}
  IN  IF I = {} THEN 0 ELSE CHOOSE i \in I : \A j \in I : i <= j

\* LookPath letting the wildcard win over a binary with the name
LookPathWildcardFirst(bs, file) ==
  IF Contains(file, "/")
  THEN IF Contains(bs, file) \/ Contains(bs, Star) THEN <<file, NoErr>>
       ELSE <<<<>>, ErrNoSuchFile(file)>>
  ELSE IF Contains(bs, Star) THEN <<file, NoErr>>
       ELSE IF FirstBin(bs, file) # 0 THEN <<bs[FirstBin(bs, file)], NoErr>>
       ELSE <<<<>>, ErrNotFound(file)>>

\* LookPath resolving a name with a separator by its base name as well
LookPathByBaseName(bs, file) ==
  IF Contains(file, "/") /\ Contains(bs, file) THEN <<file, NoErr>>
  ELSE IF FirstBin(bs, Base(file)) # 0 THEN <<bs[FirstBin(bs, Base(file))], NoErr>>
  ELSE IF Contains(bs, Star) THEN <<file, NoErr>>
  ELSE IF Contains(file, "/") THEN <<<<>>, ErrNoSuchFile(file)>>
  ELSE <<<<>>, ErrNotFound(file)>>

\* FuncExec.LookPath: <<path, error>>
LookPath(bs, file) ==
  LET hasWildcard == Contains(bs, Star)
  IN  IF Contains(file, "/")
      THEN IF Contains(bs, file) THEN <<file, NoErr>>
           ELSE IF hasWildcard THEN <<file, NoErr>>
           ELSE <<<<>>, ErrNoSuchFile(file)>>
      ELSE IF FirstBin(bs, file) # 0 THEN <<bs[FirstBin(bs, file)], NoErr>>
           ELSE IF hasWildcard THEN <<file, NoErr>>
           ELSE <<<<>>, ErrNotFound(file)>>

\* FuncExec.Command: the path and err fields of the new FuncCmd
CommandPath(bs, name) ==
  IF Base(name) = name /\ LookPath(bs, name)[1] # <<>> THEN LookPath(bs, name)[1] ELSE name

CommandErr(bs, name) ==
  IF Base(name) = name THEN LookPath(bs, name)[2] ELSE NoErr

\* args: append([]string{name}, arg...)
CommandArgs(name, arg) == <<name>> \o arg

----------------------------------------------------------------------------
(* Router *)

\* a muxMatcher
Matcher(p, hd) == [pat |-> p, handler |-> hd]

\* a name test that does not know the wildcard
PatMatchNoWildcard(p, cmdPath) == Base(p) = cmdPath

\* pat.Match
PatMatch(p, cmdPath) == ~(p # Star /\ Base(p) # cmdPath)

FirstMatch(matchers, cmdPath) ==
  LET I == {i \in 1..Len(matchers) : PatMatch(matchers[i].pat, cmdPath)}
  IN  IF I = {} THEN 0 ELSE CHOOSE i \in I : \A j \in I : i <= j

\* findHandler falling back on the first matcher when none matches
findHandlerFallback(m, cmdPath) ==
  IF m.nil THEN 0
  ELSE IF FirstMatch(m.matchers, cmdPath) = 0
       THEN IF m.matchers = <<>> THEN 0 ELSE m.matchers[1].handler
  ELSE m.matchers[FirstMatch(m.matchers, cmdPath)].handler

\* findHandler with the latest registration winning
findHandlerLast(m, cmdPath) ==
  LET I == {i \in 1..Len(m.matchers) : PatMatch(m.matchers[i].pat, cmdPath)}
  IN  IF m.nil \/ I = {} THEN 0
      ELSE m.matchers[CHOOSE i \in I : \A j \in I : j <= i].handler

\* Mux.findHandler: the handler's index in Handlers, 0 for nil
findHandler(m, cmdPath) ==
  IF m.nil THEN 0
  ELSE IF FirstMatch(m.matchers, cmdPath) = 0 THEN 0
  ELSE m.matchers[FirstMatch(m.matchers, cmdPath)].handler

\* pat.New(cmd, args...), pat.All()
NewPattern(cmd, patArgs) == [Cmd |-> cmd, Args |-> patArgs]

\* Pattern.Match of package pat. cmd.Args()[1:] is Tail(cmdArgs): Command
\* always builds args with the name in its first slot.
PatternMatch(p, cmdPath, cmdArgs) ==
  IF p.Cmd # Star /\ Base(p.Cmd) # cmdPath THEN FALSE
  ELSE \A i \in 1..Len(p.Args) : Contains(Tail(cmdArgs), p.Args[i])

\* Mux.HandleFunc
HandleFunc(m, p, hd) == [m EXCEPT !.matchers = Append(@, Matcher(p, hd))]

\* NewFuncMapMux registering every key where the iteration meets it
NewFuncMapMuxInOrder(funcMap, order) ==
  LET RECURSIVE All(_, _)
      All(m, o) ==
        IF o = <<>> THEN m
        ELSE All(HandleFunc(m, Head(o), funcMap[Head(o)]), Tail(o))
  IN  All([nil |-> FALSE, matchers |-> <<>>], order)

\* NewFuncMapMux, the loop over the map: order is the order in which the
\* iteration yields the keys; the "*" key is set aside
RECURSIVE RegisterKeys(_, _, _)
RegisterKeys(m, funcMap, order) ==
  IF order = <<>> THEN m
  ELSE IF Head(order) = Star THEN RegisterKeys(m, funcMap, Tail(order))
  ELSE RegisterKeys(HandleFunc(m, Head(order), funcMap[Head(order)]), funcMap, Tail(order))

\* NewFuncMapMux: a handler of 0 is a nil CmdFunc
NewFuncMapMux(funcMap, order) ==
  LET m == RegisterKeys([nil |-> FALSE, matchers |-> <<>>], funcMap, order)
  IN  IF Star \in DOMAIN funcMap /\ funcMap[Star] # 0
      THEN HandleFunc(m, Star, funcMap[Star])
      ELSE m

----------------------------------------------------------------------------
(* Lockable I/O channel *)

\* A *lockableBuffer: addr is the object's identity (two fields holding the
\* same addr hold the same object), reader and writer name the underlying
\* reader and writer in sinks, "nil" for nil.
NilRW == [addr |-> 0, reader |-> "nil", writer |-> "nil", writeLocked |-> FALSE, readLocked |-> FALSE]

\* newLockableBuffer with the write side locked
newLockableBufferWriteLocked(a, buf) ==
  [addr |-> a, reader |-> buf, writer |-> buf, writeLocked |-> TRUE, readLocked |-> FALSE]

\* newLockableBuffer: reader and writer are one fresh bytes.Buffer
newLockableBuffer(a, buf) ==
  [addr |-> a, reader |-> buf, writer |-> buf, writeLocked |-> FALSE, readLocked |-> FALSE]

newLockableReader(a, reader) ==
  [addr |-> a, reader |-> reader, writer |-> "nil", writeLocked |-> TRUE, readLocked |-> FALSE]

newLockableWriter(a, writer) ==
  [addr |-> a, reader |-> "nil", writer |-> writer, writeLocked |-> FALSE, readLocked |-> TRUE]

\* LockWrite that flips the flag
LockWriteFlip(rw) == [rw EXCEPT !.writeLocked = ~@]

LockWrite(rw) == [rw EXCEPT !.writeLocked = TRUE]

LockRead(rw) == [rw EXCEPT !.readLocked = TRUE]

\* io.EOF
EOF == "EOF"

\* lockableBuffer.Write that passes every write through to the writer
WriteUnlocked(rw, s, p) ==
  IF rw.writer = "nil" THEN [n |-> Len(p), err |-> NoErr, sinks |-> s]
  ELSE [n |-> Len(p), err |-> NoErr, sinks |-> [s EXCEPT ![rw.writer] = @ \o p]]

\* lockableBuffer.Write(p) with s the contents of the underlying readers and
\* writers: what it returns and the contents it leaves. The writer is a
\* bytes.Buffer, whose Write appends p and returns len(p), nil.
Write(rw, s, p) ==
  IF rw.writeLocked THEN [n |-> Len(p), err |-> NoErr, sinks |-> s]
  ELSE [n |-> Len(p), err |-> NoErr, sinks |-> [s EXCEPT ![rw.writer] = @ \o p]]

\* lockableBuffer.Read(p): what it returns, the caller's p and the contents it
\* leaves. The reader is a bytes.Buffer, whose Read copies what fits into p
\* and takes it out of the buffer, and returns io.EOF when the buffer is
\* empty and p is not.
Read(rw, s, p) ==
  IF rw.readLocked THEN [n |-> 0, err |-> NoErr, p |-> p, sinks |-> s]
  ELSE LET buf == s[rw.reader]
           n == IF Len(p) < Len(buf) THEN Len(p) ELSE Len(buf)
       IN IF buf = <<>>
          THEN [n |-> 0, err |-> IF p = <<>> THEN NoErr ELSE EOF, p |-> p, sinks |-> s]
          ELSE [n |-> n, err |-> NoErr,
                p |-> SubSeq(buf, 1, n) \o SubSeq(p, n + 1, Len(p)),
                sinks |-> [s EXCEPT ![rw.reader] = SubSeq(buf, n + 1, Len(buf))]]

\* lockableBuffer.Bytes / String: io.ReadAll(rw.reader) takes everything out
\* of the reader, whatever the flags are
Bytes(rw, s) ==
  IF rw.reader = "nil" THEN [bytes |-> <<>>, sinks |-> s]
  ELSE [bytes |-> s[rw.reader], sinks |-> [s EXCEPT ![rw.reader] = <<>>]]

\* the readers and writers the caller can hand to SetStdin/SetStdout/SetStderr
UserSinks == {"w1"}

\* the bytes.Buffer that newLockableBuffer makes for a stream field; a field
\* gets at most one, as it is only made for a nil field and no field is ever
\* set back to nil
OwnBuffer(stream) == stream

SinkIds == UserSinks \cup {"stdin", "stdout", "stderr"}

\* the address of a new object: one that no object held by the two other
\* fields has (the field's own number when that is free)
FreshAddr(k, o1, o2) ==
  IF k # o1.addr /\ k # o2.addr THEN k
  ELSE CHOOSE a \in 1..3 : a # o1.addr /\ a # o2.addr

----------------------------------------------------------------------------
(* Inputs: the handlers a router can hold, and the runtimes and names     *)
(* a command is built from                                                 *)

WriteOp(stream, via, b) == [stream |-> stream, via |-> via, b |-> b]

\* A CmdFunc: the writes it performs, in order, and the status it returns.
\* via "field" writes to fc.stdout / fc.stderr, via "accessor" to
\* fc.Stdout() / fc.Stderr(), via "read" is io.ReadAll(fc.stdin); a handler
\* skips a stream that is not attached.
Handlers == <<
  [ops |-> <<WriteOp("stdout", "field", "A"), WriteOp("stdout", "field", "B")>>,
   status |-> 0],
  [ops |-> <<WriteOp("stdout", "accessor", "A"), WriteOp("stderr", "field", "E")>>,
   status |-> 2],
  [ops |-> <<>>, status |-> 1],
  [ops |-> <<WriteOp("stdin", "read", ""), WriteOp("stdout", "field", "A"),
             WriteOp("stdout", "accessor", "B")>>,
   status |-> 0] >>

NilMux == [nil |-> TRUE, matchers |-> <<>>]

NewMux(ms) == [nil |-> FALSE, matchers |-> ms]

NameT == <<"t">>
NameX == <<"x">>
PathBT == <<"/", "b", "/", "t">>
PathCT == <<"/", "c", "/", "t">>
ArgA == <<"a">>
ArgB == <<"b">>
ArgAB == <<"a", "b">>

MuxChoices ==
  { NilMux,
    NewMux(<<Matcher(NameT, 1)>>),
    NewMux(<<Matcher(Star, 2)>>),
    NewMux(<<Matcher(NameX, 3), Matcher(PathBT, 1)>>) }

BinsChoices == { <<Star>>, <<PathBT>> }

NameChoices == { NameT, NameX, <<>> }

PathChoices == { NameT, <<>> }

\* the arguments a command is built with
ArgChoices == { <<ArgA, ArgB>> }

\* values rand.Intn(PidMax) returns: the two ends of its range
PidChoices == { 0, PidMax - 1 }

----------------------------------------------------------------------------
(* The state after NewFuncExec and Command / CommandContext *)

Idle == [pc |-> "idle", op |-> "none", n |-> 0]

NoTask == [pc |-> "none", fn |-> 0, i |-> 0, tgt |-> "none"]

\* a nil map[string]string
NilEnv == [nil |-> TRUE, map |-> <<>>]

\* no call has returned a value yet
NoOut == [op |-> "none"]

Init ==
  /\ bins \in BinsChoices
  /\ mux \in MuxChoices
  /\ hasCtx \in BOOLEAN
  /\ ctxDone = FALSE
  /\ \E name \in NameChoices, arg \in ArgChoices :
       /\ path = CommandPath(bins, name)
       /\ args = CommandArgs(name, arg)
       /\ err = CommandErr(bins, name)
  /\ env = NilEnv /\ envs = NilEnv
  /\ startErr = NoErr
  /\ process = <<>>
  /\ processState = FALSE
  /\ stdin = NilRW /\ stdout = NilRW /\ stderr = NilRW
  /\ sinks = [s \in SinkIds |-> <<>>]
  /\ exitCode = <<>>
  /\ ctxErr = <<>>
  /\ h = NoTask
  /\ w = "none"
  /\ caller = Idle
  /\ ret = [op |-> "none", err |-> NoErr]
  /\ out = NoOut
  /\ hist = [afterCancel |-> {}, starts |-> {}, reset |-> {},
             notStarted |-> FALSE, waited |-> FALSE, noMatch |-> FALSE]

cfgVars == <<bins, mux, hasCtx, args, env, envs>>
ioVars == <<stdin, stdout, stderr, sinks>>
chanVars == <<exitCode, ctxErr>>
taskVars == <<h, w>>
lifeVars == <<err, startErr, process, processState>>

----------------------------------------------------------------------------
(* The caller's calls *)

\* the caller is not inside a call and may make one
CanCall == caller.pc = "idle" /\ caller.n < MaxCalls

\* a setter returns, with no value
Returned == caller' = [caller EXCEPT !.n = @ + 1]

\* the calls that run the command and return the bytes it wrote; Output is
\* "OutputCaptureErr" when it has found no stderr attached (captureErr)
OutputOps == {"CombinedOutput", "Output", "OutputCaptureErr"}

\* a call returns e to the caller; inside CombinedOutput and Output it is
\* c.Run() that returns e, and the call goes on to Bytes()
Return(op, e) ==
  IF op \in OutputOps
  THEN /\ caller' = [caller EXCEPT !.pc = "bytes", !.op = op]
       /\ ret' = [op |-> "Run", err |-> e]
  ELSE /\ caller' = [pc |-> "idle", op |-> "none", n |-> caller.n + 1]
       /\ ret' = [op |-> op, err |-> e]

\* no matcher of the router matches the command (or there is no router)
NoMatch ==
  mux.nil \/ \A i \in 1..Len(mux.matchers) : ~PatMatch(mux.matchers[i].pat, path)

\* history: how the Start calls so far ended: "ok" with no error, "res" with
\* the recorded resolution / no-command error, "other" with another error
StartKind(e) ==
  IF e = NoErr THEN "ok"
  ELSE IF e \in {ErrAlreadyStarted, CtxErrValue} THEN "other"
  ELSE "res"

\* Start returns e: to the caller, or into Run, which goes on to Wait
StartReturn(op, e) ==
  /\ hist' = [hist EXCEPT !.starts = @ \cup {StartKind(e)},
                          !.noMatch = @ \/ (e = NoErr /\ NoMatch)]
  /\ IF op \in {"Run"} \cup OutputOps /\ e = NoErr
     THEN /\ caller' = [caller EXCEPT !.pc = IF op = "Run" THEN "runWait" ELSE "outputWait",
                                      !.op = op]
          /\ UNCHANGED ret
     ELSE Return(op, e)

\* StartError without the test of c.Process()
StartErrorNoStartedCheck ==
  IF path = <<>> /\ err = NoErr THEN ErrNoCommand
  ELSE IF err # NoErr THEN err
  ELSE IF hasCtx /\ ctxDone THEN CtxErrValue
  ELSE NoErr

\* StartError without the test of c.err
StartErrorNoErrCheck ==
  IF path = <<>> /\ err = NoErr THEN ErrNoCommand
  ELSE IF process # <<>> THEN ErrAlreadyStarted
  ELSE IF hasCtx /\ ctxDone THEN CtxErrValue
  ELSE NoErr

\* StartError without the test of ctx.Done()
StartErrorNoCtxCheck ==
  IF path = <<>> /\ err = NoErr THEN ErrNoCommand
  ELSE IF err # NoErr THEN err
  ELSE IF process # <<>> THEN ErrAlreadyStarted
  ELSE NoErr

\* Start's checks, in their order: the error it returns before it changes
\* anything but err, NoErr when it goes on. (exitCode and ctxErr are never
\* nil: Command makes both channels.)
StartError ==
  IF path = <<>> /\ err = NoErr THEN ErrNoCommand
  ELSE IF err # NoErr THEN err
  ELSE IF process # <<>> THEN ErrAlreadyStarted
  ELSE IF hasCtx /\ ctxDone THEN CtxErrValue
  ELSE NoErr

\* Start launching the watcher for a command without a deadline as well
StartCodeAlwaysWatches(op) ==
  /\ err' = IF path = <<>> /\ err = NoErr THEN ErrNoCommand ELSE err
  /\ StartReturn(op, StartError)
  /\ IF StartError # NoErr
     THEN UNCHANGED <<startErr, process, h, w>>
     ELSE /\ \E pid \in PidChoices : process' = <<pid>>
          /\ IF findHandler(mux, path) = 0
             THEN /\ startErr' = ErrStartFailure
                  /\ UNCHANGED <<h, w>>
             ELSE /\ h' = [pc |-> "run", fn |-> findHandler(mux, path), i |-> 1,
                           tgt |-> "none"]
                  /\ w' = "select"
                  /\ UNCHANGED startErr

\* FuncCmd.Start, called directly or by Run
StartCode(op) ==
  /\ err' = IF path = <<>> /\ err = NoErr THEN ErrNoCommand ELSE err
  /\ StartReturn(op, StartError)
  /\ IF StartError # NoErr
     THEN UNCHANGED <<startErr, process, h, w>>
     ELSE /\ \E pid \in PidChoices : process' = <<pid>>
          /\ IF findHandler(mux, path) = 0
             THEN /\ startErr' = ErrStartFailure
                  /\ UNCHANGED <<h, w>>
             ELSE /\ h' = [pc |-> "run", fn |-> findHandler(mux, path), i |-> 1,
                           tgt |-> "none"]
                  /\ w' = IF hasCtx THEN "select" ELSE "none"
                  /\ UNCHANGED startErr

Start ==
  /\ CanCall
  /\ StartCode("Start")
  /\ UNCHANGED <<cfgVars, out, ctxDone, path, processState, ioVars, chanVars>>

\* Wait without the test of c.Process()
WaitErrorNoStartedCheck ==
  IF startErr # NoErr THEN startErr
  ELSE IF processState THEN ErrWaitCalled
  ELSE NoErr

\* Wait without the test of c.processState
WaitErrorNoWaitedCheck ==
  IF startErr # NoErr THEN startErr
  ELSE IF process = <<>> THEN ErrNotStarted
  ELSE NoErr

\* Wait's checks, in their order: the error it returns before it records
\* anything, NoErr when it goes on to its receives
WaitError ==
  IF startErr # NoErr THEN startErr
  ELSE IF process = <<>> THEN ErrNotStarted
  ELSE IF processState THEN ErrWaitCalled
  ELSE NoErr

\* FuncCmd.Wait up to its first receive, called directly or by Run
WaitCode(op) ==
  /\ hist' = [hist EXCEPT !.notStarted = @ \/ process = <<>>,
                          !.waited = @ \/ process # <<>>]
  /\ IF WaitError # NoErr
     THEN Return(op, WaitError) /\ UNCHANGED processState
     ELSE /\ processState' = TRUE
          /\ caller' = [caller EXCEPT !.pc = IF hasCtx THEN "waitCtx" ELSE "waitExit",
                                      !.op = op]
          /\ UNCHANGED ret

Wait ==
  /\ CanCall
  /\ WaitCode("Wait")
  /\ UNCHANGED <<cfgVars, out, ctxDone, path, err, startErr, process, ioVars, chanVars,
                 taskVars>>

\* Wait: interruptErr := <-c.ctxErr
WaitRecvCtx ==
  /\ caller.pc = "waitCtx"
  /\ ctxErr # <<>>
  /\ ctxErr' = Tail(ctxErr)
  /\ IF Head(ctxErr) # NoErr
     THEN Return(caller.op, Head(ctxErr))
     ELSE caller' = [caller EXCEPT !.pc = "waitExit"] /\ UNCHANGED ret
  /\ UNCHANGED <<cfgVars, out, ctxDone, path, lifeVars, ioVars, exitCode, taskVars, hist>>

\* Wait: exitCode := <-c.exitCode
WaitRecvExit ==
  /\ caller.pc = "waitExit"
  /\ exitCode # <<>>
  /\ exitCode' = Tail(exitCode)
  /\ Return(caller.op, IF Head(exitCode) # 0 THEN ExitError(Head(exitCode)) ELSE NoErr)
  /\ UNCHANGED <<cfgVars, out, ctxDone, path, lifeVars, ioVars, ctxErr, taskVars, hist>>

\* Run that goes on to Wait when its Start has failed
RunWaitsAfterFailedStart ==
  /\ CanCall
  /\ IF StartError # NoErr
     THEN /\ caller' = [caller EXCEPT !.pc = "runWait", !.op = "Run"]
          /\ UNCHANGED <<err, startErr, process, h, w, ret, hist>>
     ELSE StartCode("Run")
  /\ UNCHANGED <<cfgVars, out, ctxDone, path, processState, ioVars, chanVars>>

\* FuncCmd.Run: Start, and if it failed return its error
Run ==
  /\ CanCall
  /\ StartCode("Run")
  /\ UNCHANGED <<cfgVars, out, ctxDone, path, processState, ioVars, chanVars>>

\* FuncCmd.Run: return c.Wait()
RunWait ==
  /\ caller.pc = "runWait"
  /\ WaitCode("Run")
  /\ UNCHANGED <<cfgVars, out, ctxDone, path, err, startErr, process, ioVars, chanVars,
                 taskVars>>

\* CombinedOutput with a buffer for each of the two streams
CombinedOutputTwoBuffers ==
  /\ CanCall
  /\ stdout = NilRW /\ stderr = NilRW
  /\ stdout' = newLockableBuffer(FreshAddr(2, stdin, stdin), OwnBuffer("stdout"))
  /\ stderr' = newLockableBuffer(FreshAddr(3, stdin, stdout'), OwnBuffer("stderr"))
  /\ StartCode("CombinedOutput")
  /\ UNCHANGED <<cfgVars, out, ctxDone, path, processState, stdin, sinks, chanVars>>

\* CombinedOutput that only tests c.stdout
CombinedOutputChecksStdoutOnly ==
  /\ CanCall
  /\ IF stdout # NilRW
     THEN /\ caller' = [caller EXCEPT !.n = @ + 1]
          /\ ret' = [op |-> "CombinedOutput", err |-> "exec: Stdout already set"]
          /\ out' = [op |-> "CombinedOutput", bytes |-> <<>>]
          /\ UNCHANGED <<lifeVars, stdout, stderr, taskVars, hist>>
     ELSE /\ stdout' = newLockableBuffer(FreshAddr(2, stdin, stdin), OwnBuffer("stdout"))
          /\ stderr' = stdout'
          /\ StartCode("CombinedOutput")
          /\ UNCHANGED <<out, processState>>
  /\ UNCHANGED <<cfgVars, ctxDone, path, stdin, sinks, chanVars>>

\* FuncCmd.CombinedOutput up to the return of the Start in its Run: one
\* buffer b becomes both c.stdout and c.stderr
CombinedOutput ==
  /\ CanCall
  /\ IF stdout # NilRW \/ stderr # NilRW
     THEN /\ caller' = [caller EXCEPT !.n = @ + 1]
          /\ ret' = [op |-> "CombinedOutput",
                     err |-> IF stdout # NilRW THEN "exec: Stdout already set"
                             ELSE "exec: Stderr already set"]
          /\ out' = [op |-> "CombinedOutput", bytes |-> <<>>]
          /\ UNCHANGED <<lifeVars, stdout, stderr, taskVars, hist>>
     ELSE /\ stdout' = newLockableBuffer(FreshAddr(2, stdin, stdin), OwnBuffer("stdout"))
          /\ stderr' = stdout'
          /\ StartCode("CombinedOutput")
          /\ UNCHANGED <<out, processState>>
  /\ UNCHANGED <<cfgVars, ctxDone, path, stdin, sinks, chanVars>>

\* CombinedOutput: the Wait in its Run
CombinedOutputWait ==
  /\ caller.pc = "outputWait"
  /\ caller.op = "CombinedOutput"
  /\ WaitCode("CombinedOutput")
  /\ UNCHANGED <<cfgVars, out, ctxDone, path, err, startErr, process, ioVars, chanVars,
                 taskVars>>

\* CombinedOutput: return b.Bytes(), err. Bytes reads the buffer to its end
\* with io.ReadAll, which takes the bytes out of it.
CombinedOutputBytes ==
  /\ caller.pc = "bytes"
  /\ caller.op = "CombinedOutput"
  /\ out' = [op |-> "CombinedOutput", bytes |-> sinks[stdout.reader]]
  /\ sinks' = [sinks EXCEPT ![stdout.reader] = <<>>]
  /\ caller' = [pc |-> "idle", op |-> "none", n |-> caller.n + 1]
  /\ ret' = [op |-> "CombinedOutput", err |-> ret.err]
  /\ UNCHANGED <<cfgVars, ctxDone, path, lifeVars, stdin, stdout, stderr, chanVars,
                 taskVars, hist>>

SetPath ==
  /\ CanCall
  /\ \E p \in PathChoices : path' = p
  /\ Returned
  /\ UNCHANGED <<cfgVars, out, ctxDone, lifeVars, ioVars, chanVars, taskVars, ret, hist>>

\* FuncCmd.StdinPipe, whatever the caller does with the pipe it returns
StdinPipeCall ==
  /\ CanCall
  /\ IF stdin # NilRW
     THEN Return("StdinPipe", "exec: Stdin already set") /\ UNCHANGED stdin
     ELSE IF process # <<>>
     THEN Return("StdinPipe", "exec: StdinPipe after process started") /\ UNCHANGED stdin
     ELSE /\ stdin' = newLockableBuffer(FreshAddr(1, stdout, stderr), OwnBuffer("stdin"))
          /\ Return("StdinPipe", NoErr)
  /\ UNCHANGED <<cfgVars, ctxDone, path, lifeVars, stdout, stderr, sinks, chanVars,
                 taskVars, hist>>

\* StdinPipe by a caller that drops the pipe
StdinPipe == StdinPipeCall /\ UNCHANGED out

\* StdoutPipe without the test of c.process
StdoutPipeCallNoStartedCheck ==
  /\ CanCall
  /\ IF stdout # NilRW
     THEN Return("StdoutPipe", "exec: Stdout already set") /\ UNCHANGED stdout
     ELSE /\ stdout' = newLockableBuffer(FreshAddr(2, stdin, stderr), OwnBuffer("stdout"))
          /\ Return("StdoutPipe", NoErr)
  /\ UNCHANGED <<cfgVars, ctxDone, path, lifeVars, stdin, stderr, sinks, chanVars,
                 taskVars, hist>>

\* FuncCmd.StdoutPipe, whatever the caller does with the pipe it returns
StdoutPipeCall ==
  /\ CanCall
  /\ IF stdout # NilRW
     THEN Return("StdoutPipe", "exec: Stdout already set") /\ UNCHANGED stdout
     ELSE IF process # <<>>
     THEN Return("StdoutPipe", "exec: StdoutPipe after process started") /\ UNCHANGED stdout
     ELSE /\ stdout' = newLockableBuffer(FreshAddr(2, stdin, stderr), OwnBuffer("stdout"))
          /\ Return("StdoutPipe", NoErr)
  /\ UNCHANGED <<cfgVars, ctxDone, path, lifeVars, stdin, stderr, sinks, chanVars,
                 taskVars, hist>>

\* StdoutPipe by a caller that drops the pipe
StdoutPipe == StdoutPipeCall /\ UNCHANGED out

\* FuncCmd.StderrPipe, whatever the caller does with the pipe it returns
StderrPipeCall ==
  /\ CanCall
  /\ IF stderr # NilRW
     THEN Return("StderrPipe", "exec: Stderr already set") /\ UNCHANGED stderr
     ELSE IF process # <<>>
     THEN Return("StderrPipe", "exec: StderrPipe after process started") /\ UNCHANGED stderr
     ELSE /\ stderr' = newLockableBuffer(FreshAddr(3, stdin, stdout), OwnBuffer("stderr"))
          /\ Return("StderrPipe", NoErr)
  /\ UNCHANGED <<cfgVars, ctxDone, path, lifeVars, stdin, stdout, sinks, chanVars,
                 taskVars, hist>>

\* StderrPipe by a caller that drops the pipe
StderrPipe == StderrPipeCall /\ UNCHANGED out

\* a Set* call after Start replaces a channel the tasks may be using
NoteSet(stream) ==
  hist' = [hist EXCEPT !.reset = IF process # <<>> THEN @ \cup {stream} ELSE @]

SetStdin ==
  /\ CanCall
  /\ \E r \in UserSinks : stdin' = newLockableReader(FreshAddr(1, stdout, stderr), r)
  /\ NoteSet("stdin")
  /\ Returned
  /\ UNCHANGED <<cfgVars, out, ctxDone, path, lifeVars, stdout, stderr, sinks, chanVars,
                 taskVars, ret>>

\* SetStdout with a wrapper that takes over the lock of the one it replaces
SetStdoutKeepLock ==
  /\ CanCall
  /\ \E s \in UserSinks :
       stdout' = [newLockableWriter(FreshAddr(2, stdin, stderr), s)
                    EXCEPT !.writeLocked = stdout.writeLocked]
  /\ NoteSet("stdout")
  /\ Returned
  /\ UNCHANGED <<cfgVars, out, ctxDone, path, lifeVars, stdin, stderr, sinks, chanVars,
                 taskVars, ret>>

SetStdout ==
  /\ CanCall
  /\ \E s \in UserSinks : stdout' = newLockableWriter(FreshAddr(2, stdin, stderr), s)
  /\ NoteSet("stdout")
  /\ Returned
  /\ UNCHANGED <<cfgVars, out, ctxDone, path, lifeVars, stdin, stderr, sinks, chanVars,
                 taskVars, ret>>

SetStderr ==
  /\ CanCall
  /\ \E s \in UserSinks : stderr' = newLockableWriter(FreshAddr(3, stdin, stdout), s)
  /\ NoteSet("stderr")
  /\ Returned
  /\ UNCHANGED <<cfgVars, out, ctxDone, path, lifeVars, stdin, stdout, sinks, chanVars,
                 taskVars, ret>>

----------------------------------------------------------------------------
(* The deadline *)

\* the context's deadline passes (or its cancel function is called)
CtxFire ==
  /\ hasCtx
  /\ ~ctxDone
  /\ ctxDone' = TRUE
  /\ UNCHANGED <<cfgVars, out, path, lifeVars, ioVars, chanVars, taskVars, caller, ret, hist>>

----------------------------------------------------------------------------
(* The handler goroutine: c.exitCode <- fn(c); done <- struct{}{} *)

Stream(name) ==
  IF name = "stdin" THEN stdin ELSE IF name = "stdout" THEN stdout ELSE stderr

HandlerOp == Handlers[h.fn].ops[h.i]

HandlerRunning == h.pc = "run" /\ h.i <= Len(Handlers[h.fn].ops)

\* Wait, called directly or by Run, has returned the deadline's error
WaitCancelled ==
  ret.op \in {"Wait", "Run"} /\ ret.err = CtxErrValue /\ process # <<>>

\* history: the bytes of the writes the handler began after Wait had
\* returned the deadline's error
NoteWrite ==
  hist' = [hist EXCEPT !.afterCancel = IF WaitCancelled THEN @ \cup {HandlerOp.b} ELSE @]

\* the handler finds the stream of its next write not attached and skips it
HandlerSkip ==
  /\ HandlerRunning
  /\ Stream(HandlerOp.stream) = NilRW
  /\ h' = [h EXCEPT !.i = @ + 1]
  /\ UNCHANGED <<cfgVars, out, ctxDone, path, lifeVars, ioVars, chanVars, w, caller, ret, hist>>

\* lockableBuffer.Write on fc.stdout / fc.stderr: the test of writeLocked;
\* when it passes, the write goes on to rw.writer
HandlerWriteCheck ==
  /\ HandlerRunning
  /\ HandlerOp.via = "field"
  /\ Stream(HandlerOp.stream) # NilRW
  /\ IF Stream(HandlerOp.stream).writeLocked
     THEN h' = [h EXCEPT !.i = @ + 1]
     ELSE h' = [h EXCEPT !.pc = "write", !.tgt = Stream(HandlerOp.stream).writer]
  /\ NoteWrite
  /\ UNCHANGED <<cfgVars, out, ctxDone, path, lifeVars, ioVars, chanVars, w, caller, ret>>

\* lockableBuffer.Write: return rw.writer.Write(p)
HandlerWriteSink ==
  /\ h.pc = "write"
  /\ sinks' = [sinks EXCEPT ![h.tgt] = Append(@, HandlerOp.b)]
  /\ h' = [h EXCEPT !.pc = "run", !.i = @ + 1, !.tgt = "none"]
  /\ UNCHANGED <<cfgVars, out, ctxDone, path, lifeVars, stdin, stdout, stderr, chanVars,
                 w, caller, ret, hist>>

\* a write to fc.Stdout() / fc.Stderr(), the writer the accessor unwraps
HandlerWriteAccessor ==
  /\ HandlerRunning
  /\ HandlerOp.via = "accessor"
  /\ Stream(HandlerOp.stream) # NilRW
  /\ sinks' = [sinks EXCEPT ![Stream(HandlerOp.stream).writer] = Append(@, HandlerOp.b)]
  /\ h' = [h EXCEPT !.i = @ + 1]
  /\ NoteWrite
  /\ UNCHANGED <<cfgVars, out, ctxDone, path, lifeVars, stdin, stdout, stderr, chanVars,
                 w, caller, ret>>

\* fn returns and its status goes to the exit-status channel
HandlerReturn ==
  /\ h.pc = "run"
  /\ h.i > Len(Handlers[h.fn].ops)
  /\ Len(exitCode) < 1
  /\ exitCode' = Append(exitCode, Handlers[h.fn].status)
  /\ h' = [h EXCEPT !.pc = "sendDone"]
  /\ UNCHANGED <<cfgVars, out, ctxDone, path, lifeVars, ioVars, ctxErr, w, caller, ret, hist>>

----------------------------------------------------------------------------
(* The watcher goroutine: select on ctx.Done() and done *)

\* the deadline branch without its c.lock()
WatcherSelectCtxNoLock ==
  /\ w = "select"
  /\ ctxDone
  /\ w' = "pubCancel"
  /\ UNCHANGED <<cfgVars, out, ctxDone, path, lifeVars, ioVars, chanVars, h, caller, ret, hist>>

\* case <-c.ctx.Done()
WatcherSelectCtx ==
  /\ w = "select"
  /\ ctxDone
  /\ w' = "lockStdin"
  /\ UNCHANGED <<cfgVars, out, ctxDone, path, lifeVars, ioVars, chanVars, h, caller, ret, hist>>

\* the watcher receiving done before the handler function has returned
WatcherSelectDoneEarly ==
  /\ w = "select"
  /\ h.pc = "run"
  /\ w' = "pubNil"
  /\ UNCHANGED <<cfgVars, out, ctxDone, path, lifeVars, ioVars, chanVars, h, caller, ret, hist>>

\* case <-done, which is also the handler's send on the unbuffered done
WatcherSelectDone ==
  /\ w = "select"
  /\ h.pc = "sendDone"
  /\ w' = "pubNil"
  /\ h' = [h EXCEPT !.pc = "end"]
  /\ UNCHANGED <<cfgVars, out, ctxDone, path, lifeVars, ioVars, chanVars, caller, ret, hist>>

\* LockRead / LockWrite of the object at address a, as seen through a field:
\* the fields that hold that object see it locked
LockReadAt(a, rw) == IF rw.addr = a THEN LockRead(rw) ELSE rw

LockWriteAt(a, rw) == IF rw.addr = a THEN LockWrite(rw) ELSE rw

\* FuncCmd.lock, its three steps
WatcherLockStdin ==
  /\ w = "lockStdin"
  /\ stdin' = IF stdin # NilRW THEN LockRead(stdin) ELSE stdin
  /\ stdout' = IF stdin # NilRW THEN LockReadAt(stdin.addr, stdout) ELSE stdout
  /\ stderr' = IF stdin # NilRW THEN LockReadAt(stdin.addr, stderr) ELSE stderr
  /\ w' = "lockStdout"
  /\ UNCHANGED <<cfgVars, out, ctxDone, path, lifeVars, sinks, chanVars, h, caller, ret, hist>>

WatcherLockStdout ==
  /\ w = "lockStdout"
  /\ stdout' = IF stdout # NilRW THEN LockWrite(stdout) ELSE stdout
  /\ stdin' = IF stdout # NilRW THEN LockWriteAt(stdout.addr, stdin) ELSE stdin
  /\ stderr' = IF stdout # NilRW THEN LockWriteAt(stdout.addr, stderr) ELSE stderr
  /\ w' = "lockStderr"
  /\ UNCHANGED <<cfgVars, out, ctxDone, path, lifeVars, sinks, chanVars, h, caller, ret, hist>>

WatcherLockStderr ==
  /\ w = "lockStderr"
  /\ stderr' = IF stderr # NilRW THEN LockWrite(stderr) ELSE stderr
  /\ stdin' = IF stderr # NilRW THEN LockWriteAt(stderr.addr, stdin) ELSE stdin
  /\ stdout' = IF stderr # NilRW THEN LockWriteAt(stderr.addr, stdout) ELSE stdout
  /\ w' = "pubCancel"
  /\ UNCHANGED <<cfgVars, out, ctxDone, path, lifeVars, sinks, chanVars, h, caller, ret, hist>>

\* c.ctxErr <- c.ctx.Err()
WatcherPublishCancel ==
  /\ w = "pubCancel"
  /\ Len(ctxErr) < 1
  /\ ctxErr' = Append(ctxErr, CtxErrValue)
  /\ w' = "end"
  /\ UNCHANGED <<cfgVars, out, ctxDone, path, lifeVars, ioVars, exitCode, h, caller, ret, hist>>

\* the watcher ending after done without sending to c.ctxErr
WatcherPublishNilDropped ==
  /\ w = "pubNil"
  /\ w' = "end"
  /\ UNCHANGED <<cfgVars, out, ctxDone, path, lifeVars, ioVars, chanVars, h, caller, ret, hist>>

\* c.ctxErr <- nil
WatcherPublishNil ==
  /\ w = "pubNil"
  /\ Len(ctxErr) < 1
  /\ ctxErr' = Append(ctxErr, NoErr)
  /\ w' = "end"
  /\ UNCHANGED <<cfgVars, out, ctxDone, path, lifeVars, ioVars, exitCode, h, caller, ret, hist>>

----------------------------------------------------------------------------

Next ==
  \/ Start \/ Wait \/ WaitRecvCtx \/ WaitRecvExit \/ Run \/ RunWait
  \/ SetPath \/ StdinPipe \/ StdoutPipe \/ StderrPipe
  \/ SetStdin \/ SetStdout \/ SetStderr
  \/ CtxFire
  \/ HandlerSkip \/ HandlerWriteCheck \/ HandlerWriteSink \/ HandlerWriteAccessor
  \/ HandlerReturn
  \/ WatcherSelectCtx \/ WatcherSelectDone
  \/ WatcherLockStdin \/ WatcherLockStdout \/ WatcherLockStderr
  \/ WatcherPublishCancel \/ WatcherPublishNil

Spec == Init /\ [][Next]_vars

----------------------------------------------------------------------------
(* Commands built for every kind of name and run, with and without        *)
(* captured output: Start, Wait, Run and CombinedOutput, no setters        *)

\* names a command is built for: resolvable and unresolvable, bare and with
\* separators, and the empty name
RunNameChoices == { NameT, NameX, PathBT, PathCT, <<>> }

\* NewFuncExec(mux, WithBins(...)) and Command / CommandContext
InitRun ==
  /\ bins \in BinsChoices
  /\ mux \in MuxChoices
  /\ hasCtx \in BOOLEAN
  /\ ctxDone = FALSE
  /\ \E name \in RunNameChoices, arg \in ArgChoices :
       /\ path = CommandPath(bins, name)
       /\ args = CommandArgs(name, arg)
       /\ err = CommandErr(bins, name)
       /\ out = [op |-> "Command", name |-> name, arg |-> arg]
  /\ env = NilEnv /\ envs = NilEnv
  /\ startErr = NoErr
  /\ process = <<>>
  /\ processState = FALSE
  /\ stdin = NilRW /\ stdout = NilRW /\ stderr = NilRW
  /\ sinks = [s \in SinkIds |-> <<>>]
  /\ exitCode = <<>>
  /\ ctxErr = <<>>
  /\ h = NoTask
  /\ w = "none"
  /\ caller = Idle
  /\ ret = [op |-> "none", err |-> NoErr]
  /\ hist = [afterCancel |-> {}, starts |-> {}, reset |-> {},
             notStarted |-> FALSE, waited |-> FALSE, noMatch |-> FALSE]

NextRun ==
  \/ Start \/ Wait \/ WaitRecvCtx \/ WaitRecvExit \/ Run \/ RunWait
  \/ CombinedOutput \/ CombinedOutputWait \/ CombinedOutputBytes
  \/ CtxFire
  \/ HandlerSkip \/ HandlerWriteCheck \/ HandlerWriteSink \/ HandlerWriteAccessor
  \/ HandlerReturn
  \/ WatcherSelectCtx \/ WatcherSelectDone
  \/ WatcherLockStdin \/ WatcherLockStdout \/ WatcherLockStderr
  \/ WatcherPublishCancel \/ WatcherPublishNil

SpecRun == InitRun /\ [][NextRun]_vars

----------------------------------------------------------------------------
(* The router and the patterns, called on their own: a router built with   *)
(* NewMux and HandleFunc or with NewFuncMapMux, a command built by         *)
(* Command, and calls of Match and findHandler on them                     *)

\* names a command is built for: two bare names and a name with separators
MuxNameChoices == { NameT, NameX, PathBT }

\* arguments a command is built with
MuxArgChoices ==
  { <<>>, <<ArgA, ArgB>>, <<ArgB, ArgAB, ArgA>>, <<NameT>>, <<ArgAB>> }

\* command strings of the patterns
PatCmdChoices == { NameT, NameX, PathBT, Star }

\* required arguments of the patterns
PatArgChoices == { <<>>, <<ArgA>>, <<ArgB, ArgA>>, <<ArgA, ArgA>>, <<NameT>> }

\* the state of the command and its tasks that these calls never touch
Untouched ==
  <<bins, hasCtx, ctxDone, path, args, env, envs, err, startErr, process, processState,
    stdin, stdout, stderr, sinks, exitCode, ctxErr, h, w, caller, ret, hist>>

\* NewFuncExec(NewMux(), WithBins(...)) and Command(name, arg...)
InitMux ==
  /\ bins \in BinsChoices
  /\ mux = NewMux(<<>>)
  /\ hasCtx = FALSE
  /\ ctxDone = FALSE
  /\ \E name \in MuxNameChoices, arg \in MuxArgChoices :
       /\ path = CommandPath(bins, name)
       /\ args = CommandArgs(name, arg)
       /\ err = CommandErr(bins, name)
  /\ env = NilEnv /\ envs = NilEnv
  /\ startErr = NoErr
  /\ process = <<>>
  /\ processState = FALSE
  /\ stdin = NilRW /\ stdout = NilRW /\ stderr = NilRW
  /\ sinks = [s \in SinkIds |-> <<>>]
  /\ exitCode = <<>>
  /\ ctxErr = <<>>
  /\ h = NoTask
  /\ w = "none"
  /\ caller = Idle
  /\ ret = [op |-> "none", err |-> NoErr]
  /\ out = NoOut
  /\ hist = [afterCancel |-> {}, starts |-> {}, reset |-> {},
             notStarted |-> FALSE, waited |-> FALSE, noMatch |-> FALSE]

\* mux.HandleFunc(pat(p), handler)
CallHandleFunc ==
  /\ ~mux.nil
  /\ Len(mux.matchers) < MaxMatchers
  /\ \E p \in PatCmdChoices, hd \in 1..2 : mux' = HandleFunc(mux, p, hd)
  /\ UNCHANGED <<Untouched, out>>

\* pat(p).Match(cmd)
CallPatMatch ==
  /\ \E p \in PatCmdChoices :
       out' = [op |-> "pat.Match", pat |-> NewPattern(p, <<>>), ok |-> PatMatch(p, path)]
  /\ UNCHANGED <<Untouched, mux>>

\* pat.New(p, patArgs...).Match(cmd)
CallPatternMatch ==
  /\ \E p \in PatCmdChoices, pa \in PatArgChoices :
       out' = [op |-> "Pattern.Match", pat |-> NewPattern(p, pa),
               ok |-> PatternMatch(NewPattern(p, pa), path, args)]
  /\ UNCHANGED <<Untouched, mux>>

\* mux.findHandler(cmd)
CallFindHandler ==
  /\ out' = [op |-> "findHandler", fn |-> findHandler(mux, path)]
  /\ UNCHANGED <<Untouched, mux>>

\* the handler a name-to-handler map gives each key
KeyHandler(k) == IF k = Star THEN 3 ELSE IF k = NameT THEN 1 ELSE 2

\* the name-to-handler maps: every set of keys
FuncMapChoices == { [k \in K |-> KeyHandler(k)] : K \in SUBSET PatCmdChoices }

\* the orders in which a map iteration can yield the keys K
IterationOrders(K) ==
  { o \in [1..Cardinality(K) -> K] : \A i, j \in 1..Cardinality(K) : i # j => o[i] # o[j] }

\* NewFuncMapMux(funcMap), the router of the runtime
CallNewFuncMapMux ==
  /\ mux = NewMux(<<>>)
  /\ out = NoOut
  /\ \E fm \in FuncMapChoices : \E o \in IterationOrders(DOMAIN fm) :
       /\ mux' = NewFuncMapMux(fm, o)
       /\ out' = [op |-> "NewFuncMapMux", funcMap |-> fm]
  /\ UNCHANGED Untouched

NextMux ==
  \/ CallHandleFunc \/ CallNewFuncMapMux
  \/ CallPatMatch \/ CallPatternMatch \/ CallFindHandler

SpecMux == InitMux /\ [][NextMux]_vars

----------------------------------------------------------------------------
(* The path lookup, called on its own on a runtime with an allow-list *)

\* what an allow-list can hold
BinEntries == { NameT, NameX, PathBT, PathCT, Star }

\* the allow-lists: WithBins(bins...)
BinLists == UNION { [1..n -> BinEntries] : n \in 0..MaxBins }

\* the names asked for
FileChoices == { NameT, NameX, PathBT, PathCT, <<>> }

\* NewFuncExec without its default: the allow-list is left as the options made it
NewFuncExecNoDefault(withBins) == withBins

\* NewFuncExec(mux, WithBins(withBins...)), the bins of the runtime it returns:
\* an allow-list the options left empty becomes the wildcard alone
NewFuncExec(withBins) == IF Len(withBins) = 0 THEN <<Star>> ELSE withBins

\* NewFuncExec(nil, WithBins(...)): no command is built; hist.withBins is the
\* list the option was given, empty as well when there was no option
InitLook ==
  /\ \E list \in BinLists :
       /\ bins = NewFuncExec(list)
       /\ hist = [withBins |-> list]
  /\ mux = NilMux
  /\ hasCtx = FALSE
  /\ ctxDone = FALSE
  /\ path = <<>>
  /\ args = <<>>
  /\ err = NoErr
  /\ env = NilEnv /\ envs = NilEnv
  /\ startErr = NoErr
  /\ process = <<>>
  /\ processState = FALSE
  /\ stdin = NilRW /\ stdout = NilRW /\ stderr = NilRW
  /\ sinks = [s \in SinkIds |-> <<>>]
  /\ exitCode = <<>>
  /\ ctxErr = <<>>
  /\ h = NoTask
  /\ w = "none"
  /\ caller = Idle
  /\ ret = [op |-> "none", err |-> NoErr]
  /\ out = NoOut

\* e.LookPath(file)
CallLookPath ==
  /\ \E file \in FileChoices :
       out' = [op |-> "LookPath", file |-> file,
               path |-> LookPath(bins, file)[1], err |-> LookPath(bins, file)[2]]
  /\ UNCHANGED <<Untouched, mux>>

NextLook == CallLookPath

SpecLook == InitLook /\ [][NextLook]_vars

----------------------------------------------------------------------------
(* A lockable channel on its own: rw, the *lockableBuffer the calls are    *)
(* made on, is kept in stdout; hist.read is what the caller has read       *)

\* contents of the underlying buffer when the channel is made
ContentChoices == { <<>>, <<"A">>, <<"B", "A">> }

\* the p of Write
WriteChoices == { <<>>, <<"C">>, <<"C", "D">> }

\* the p of Read, as the caller made it
ReadChoices == { <<>>, <<"_">>, <<"_", "_">> }

\* the state of the command around rw, which these calls never touch
AroundRW ==
  <<bins, mux, hasCtx, ctxDone, path, args, env, envs, err, startErr, process,
    processState, stdin, stderr, exitCode, ctxErr, h, w, ret>>

\* newLockableBuffer(), newLockableReader(r) or newLockableWriter(w)
InitBuf ==
  /\ bins = <<Star>>
  /\ mux = NilMux
  /\ hasCtx = FALSE
  /\ ctxDone = FALSE
  /\ path = <<>>
  /\ args = <<>>
  /\ err = NoErr
  /\ env = NilEnv /\ envs = NilEnv
  /\ startErr = NoErr
  /\ process = <<>>
  /\ processState = FALSE
  /\ stdin = NilRW /\ stderr = NilRW
  /\ stdout \in { newLockableBuffer(2, OwnBuffer("stdout")) }
                  \cup { newLockableReader(2, r) : r \in UserSinks }
                  \cup { newLockableWriter(2, r) : r \in UserSinks }
  /\ \E c \in ContentChoices :
       sinks = [s \in SinkIds |->
                  IF s \in {stdout.reader, stdout.writer} THEN c ELSE <<>>]
  /\ exitCode = <<>>
  /\ ctxErr = <<>>
  /\ h = NoTask
  /\ w = "none"
  /\ caller = Idle
  /\ ret = [op |-> "none", err |-> NoErr]
  /\ out = NoOut
  /\ hist = [read |-> <<>>]

\* rw.Write(p)
CallWrite ==
  /\ CanCall
  /\ \E p \in WriteChoices :
       /\ out' = [op |-> "Write", p |-> p, n |-> Write(stdout, sinks, p).n,
                  err |-> Write(stdout, sinks, p).err]
       /\ sinks' = Write(stdout, sinks, p).sinks
  /\ Returned
  /\ UNCHANGED <<AroundRW, stdout, hist>>

\* rw.Read(p)
CallRead ==
  /\ CanCall
  /\ \E p \in ReadChoices :
       /\ out' = [op |-> "Read", before |-> p, p |-> Read(stdout, sinks, p).p,
                  n |-> Read(stdout, sinks, p).n, err |-> Read(stdout, sinks, p).err]
       /\ sinks' = Read(stdout, sinks, p).sinks
       /\ hist' = [read |-> hist.read \o SubSeq(Read(stdout, sinks, p).p, 1,
                                                Read(stdout, sinks, p).n)]
  /\ Returned
  /\ UNCHANGED <<AroundRW, stdout>>

\* rw.Close(): a bytes.Buffer has no Close method
CallClose ==
  /\ CanCall
  /\ out' = [op |-> "Close", err |-> NoErr]
  /\ Returned
  /\ UNCHANGED <<AroundRW, stdout, sinks, hist>>

\* rw.Bytes()
CallBytes ==
  /\ CanCall
  /\ out' = [op |-> "Bytes", bytes |-> Bytes(stdout, sinks).bytes]
  /\ sinks' = Bytes(stdout, sinks).sinks
  /\ Returned
  /\ UNCHANGED <<AroundRW, stdout, hist>>

\* rw.String()
CallString ==
  /\ CanCall
  /\ out' = [op |-> "String", string |-> Cat(Bytes(stdout, sinks).bytes)]
  /\ sinks' = Bytes(stdout, sinks).sinks
  /\ Returned
  /\ UNCHANGED <<AroundRW, stdout, hist>>

\* rw.LockRead()
CallLockRead ==
  /\ CanCall
  /\ stdout' = LockRead(stdout)
  /\ out' = [op |-> "LockRead"]
  /\ Returned
  /\ UNCHANGED <<AroundRW, sinks, hist>>

\* rw.LockWrite()
CallLockWrite ==
  /\ CanCall
  /\ stdout' = LockWrite(stdout)
  /\ out' = [op |-> "LockWrite"]
  /\ Returned
  /\ UNCHANGED <<AroundRW, sinks, hist>>

NextBuf ==
  \/ CallWrite \/ CallRead \/ CallClose \/ CallBytes \/ CallString
  \/ CallLockRead \/ CallLockWrite

SpecBuf == InitBuf /\ [][NextBuf]_vars

----------------------------------------------------------------------------
(* The environment of a command: SetEnv, Env and Environ. hist.prev is the *)
(* env the last SetEnv found and hist.last the list it was given           *)

\* entries of one list given to SetEnv
MaxEnv == 2

\* strings.Index(e, c): the place of the first c in e, 0 when there is none
Index(e, c) ==
  IF \E i \in 1..Len(e) : e[i] = c
  THEN CHOOSE i \in 1..Len(e) : e[i] = c /\ \A j \in 1..(i - 1) : e[j] # c
  ELSE 0

\* the split at the last "="
SplitNLast(e) ==
  IF \E i \in 1..Len(e) : e[i] = "="
  THEN LET i == CHOOSE i \in 1..Len(e) : e[i] = "=" /\ \A j \in (i + 1)..Len(e) : e[j] # "="
       IN <<SubSeq(e, 1, i - 1), SubSeq(e, i + 1, Len(e))>>
  ELSE <<e>>

\* strings.SplitN(e, "=", 2)
SplitN(e) ==
  IF Index(e, "=") = 0 THEN <<e>>
  ELSE <<SubSeq(e, 1, Index(e, "=") - 1), SubSeq(e, Index(e, "=") + 1, Len(e))>>

\* the loop of SetEnv: c.env[name] = val for each entry, in order
RECURSIVE SetEnvEntries(_, _)
SetEnvEntries(m, list) ==
  IF list = <<>> THEN m
  ELSE LET nameVal == SplitN(Head(list))
           name == nameVal[1]
           val == IF Len(nameVal) >= 2 THEN nameVal[2] ELSE <<>>
       IN SetEnvEntries([n \in DOMAIN m \cup {name} |-> IF n = name THEN val ELSE m[n]],
                        Tail(list))

\* FuncCmd.SetEnv: the env it leaves
SetEnv(e, list) ==
  IF Len(list) = 0 THEN e
  ELSE [nil |-> FALSE, map |-> SetEnvEntries(e.map, list)]

\* the byte of a character
Byte(c) ==
  CASE c = "1" -> 49
    [] c = "=" -> 61
    [] c = "A" -> 65
    [] c = "B" -> 66

\* a < b for Go strings: byte by byte
RECURSIVE StringLess(_, _)
StringLess(a, b) ==
  IF b = <<>> THEN FALSE
  ELSE IF a = <<>> THEN TRUE
  ELSE IF Byte(a[1]) # Byte(b[1]) THEN Byte(a[1]) < Byte(b[1])
  ELSE StringLess(Tail(a), Tail(b))

\* sort.Strings
RECURSIVE SortStrings(_)
SortStrings(list) ==
  IF list = <<>> THEN <<>>
  ELSE LET i == CHOOSE i \in 1..Len(list) :
                  \A j \in 1..Len(list) : ~StringLess(list[j], list[i])
       IN <<list[i]>> \o SortStrings(SubSeq(list, 1, i - 1) \o SubSeq(list, i + 1, Len(list)))

\* the loop of fmtEnv over the map, in the order the iteration takes
RECURSIVE Sprintf(_, _)
Sprintf(m, keys) ==
  IF keys = {} THEN <<>>
  ELSE LET k == CHOOSE k \in keys : TRUE
       IN <<k \o <<"=">> \o m[k]>> \o Sprintf(m, keys \ {k})

\* fmtEnv: a nil map has no entries
fmtEnv(e) == SortStrings(Sprintf(e.map, DOMAIN e.map))

\* FuncCmd.Env
Env(e) == fmtEnv(e)

\* FuncCmd.Environ; fExec is never nil on a command that Command built
Environ(e, es) == IF e.nil THEN fmtEnv(es) ELSE fmtEnv(e)

\* the entries a SetEnv list is made of
EnvEntryChoices ==
  { <<"A", "=", "1">>, <<"A", "=", "B">>, <<"B">>, <<"B", "=", "A", "=", "1">>,
    <<"A", "1", "=", "B">>, <<"=", "A">> }

EnvLists == UNION { [1..n -> EnvEntryChoices] : n \in 0..MaxEnv }

\* WithEnv(envs), or no WithEnv
EnvsChoices ==
  { NilEnv,
    [nil |-> FALSE, map |-> [n \in {<<"A">>} |-> <<"1">>]],
    [nil |-> FALSE, map |-> [n \in {<<"A">>, <<"B">>} |-> IF n = <<"A">> THEN <<"B">> ELSE <<"1">>]] }

\* the state of the command that these calls never touch
AroundEnv ==
  <<bins, mux, hasCtx, ctxDone, path, args, envs, err, startErr, process, processState,
    stdin, stdout, stderr, sinks, exitCode, ctxErr, h, w, ret>>

\* NewFuncExec(nil, WithEnv(envs)) and Command("t", "a", "b")
InitEnv ==
  /\ bins = <<Star>>
  /\ mux = NilMux
  /\ hasCtx = FALSE
  /\ ctxDone = FALSE
  /\ path = CommandPath(bins, NameT)
  /\ args = CommandArgs(NameT, <<ArgA, ArgB>>)
  /\ err = CommandErr(bins, NameT)
  /\ env = NilEnv
  /\ envs \in EnvsChoices
  /\ startErr = NoErr
  /\ process = <<>>
  /\ processState = FALSE
  /\ stdin = NilRW /\ stdout = NilRW /\ stderr = NilRW
  /\ sinks = [s \in SinkIds |-> <<>>]
  /\ exitCode = <<>>
  /\ ctxErr = <<>>
  /\ h = NoTask
  /\ w = "none"
  /\ caller = Idle
  /\ ret = [op |-> "none", err |-> NoErr]
  /\ out = NoOut
  /\ hist = [prev |-> NilEnv, last |-> <<>>]

\* c.SetEnv(list)
CallSetEnv ==
  /\ CanCall
  /\ \E list \in EnvLists :
       /\ env' = SetEnv(env, list)
       /\ hist' = [prev |-> env, last |-> list]
  /\ Returned
  /\ UNCHANGED <<AroundEnv, out>>

\* c.Env()
CallEnv ==
  /\ CanCall
  /\ out' = [op |-> "Env", list |-> Env(env)]
  /\ Returned
  /\ UNCHANGED <<AroundEnv, env, hist>>

\* c.Environ()
CallEnviron ==
  /\ CanCall
  /\ out' = [op |-> "Environ", list |-> Environ(env, envs)]
  /\ Returned
  /\ UNCHANGED <<AroundEnv, env, hist>>

NextEnv == CallSetEnv \/ CallEnv \/ CallEnviron

SpecEnv == InitEnv /\ [][NextEnv]_vars

----------------------------------------------------------------------------
(* The I/O of a command: pipes the caller keeps and uses, setters and      *)
(* accessors, Output and CombinedOutput, and a handler that reads stdin.   *)
(* hist.fed is what the caller has written to the stdin pipe, hist.got     *)
(* what the handler's ReadAll has returned so far                          *)

\* the dynamic type of an error value: the deadline's error, the *exec.Error
\* of LookPath, and the values of errors.New and fmt.Errorf
ErrorType(e) ==
  IF e = CtxErrValue THEN "context.deadlineExceededError"
  ELSE IF \E n \in RunNameChoices : e \in {ErrNotFound(n), ErrNoSuchFile(n)}
  THEN "*exec.Error"
  ELSE "*errors.errorString"

\* the error Output returns has no Stderr field, or has these bytes in it
NoStderr == [has |-> FALSE, bytes |-> <<>>]

\* routers of the commands: a handler that writes to stdout and stderr and
\* fails, and one that reads stdin and writes to stdout
IOMuxChoices == { NewMux(<<Matcher(Star, 2)>>), NewMux(<<Matcher(NameT, 4)>>) }

\* NewFuncExec(mux) and Command("t", "a", "b") / CommandContext
InitIO ==
  /\ bins = <<Star>>
  /\ mux \in IOMuxChoices
  /\ hasCtx \in BOOLEAN
  /\ ctxDone = FALSE
  /\ path = CommandPath(bins, NameT)
  /\ args = CommandArgs(NameT, <<ArgA, ArgB>>)
  /\ err = CommandErr(bins, NameT)
  /\ env = NilEnv /\ envs = NilEnv
  /\ startErr = NoErr
  /\ process = <<>>
  /\ processState = FALSE
  /\ stdin = NilRW /\ stdout = NilRW /\ stderr = NilRW
  /\ sinks = [s \in SinkIds |-> <<>>]
  /\ exitCode = <<>>
  /\ ctxErr = <<>>
  /\ h = NoTask
  /\ w = "none"
  /\ caller = Idle
  /\ ret = [op |-> "none", err |-> NoErr]
  /\ out = NoOut
  /\ hist = [afterCancel |-> {}, starts |-> {}, reset |-> {},
             notStarted |-> FALSE, waited |-> FALSE, noMatch |-> FALSE,
             fed |-> <<>>, got |-> <<>>]

\* FuncCmd.Output up to the return of the Start in its Run
Output ==
  /\ CanCall
  /\ IF stdout # NilRW
     THEN /\ caller' = [caller EXCEPT !.n = @ + 1]
          /\ ret' = [op |-> "Output", err |-> "exec: Stdout already set"]
          /\ out' = [op |-> "Output", bytes |-> <<>>, errStderr |-> NoStderr]
          /\ UNCHANGED <<lifeVars, stdout, stderr, taskVars, hist>>
     ELSE /\ stdout' = newLockableBuffer(FreshAddr(2, stdin, stderr), OwnBuffer("stdout"))
          /\ stderr' = IF stderr = NilRW
                       THEN newLockableBuffer(FreshAddr(3, stdin, stdout'), OwnBuffer("stderr"))
                       ELSE stderr
          /\ StartCode(IF stderr = NilRW THEN "OutputCaptureErr" ELSE "Output")
          /\ UNCHANGED <<out, processState>>
  /\ UNCHANGED <<cfgVars, ctxDone, path, stdin, sinks, chanVars>>

\* Output: the Wait in its Run
OutputWait ==
  /\ caller.pc = "outputWait"
  /\ caller.op \in {"Output", "OutputCaptureErr"}
  /\ WaitCode(caller.op)
  /\ UNCHANGED <<cfgVars, out, ctxDone, path, err, startErr, process, ioVars, chanVars,
                 taskVars>>

\* Output after its Run: the bytes of stderr go into the error when it is an
\* *exec.ExitError, and Output returns stdout.Bytes(), err
OutputBytes ==
  /\ caller.pc = "bytes"
  /\ caller.op \in {"Output", "OutputCaptureErr"}
  /\ LET captureErr == caller.op = "OutputCaptureErr"
         isExitError == ret.err # NoErr /\ captureErr /\ ErrorType(ret.err) = "*exec.ExitError"
         s1 == IF isExitError THEN Bytes(stderr, sinks).sinks ELSE sinks
     IN /\ out' = [op |-> "Output", bytes |-> Bytes(stdout, s1).bytes,
                   errStderr |-> IF isExitError
                                 THEN [has |-> TRUE, bytes |-> Bytes(stderr, sinks).bytes]
                                 ELSE NoStderr]
        /\ sinks' = Bytes(stdout, s1).sinks
  /\ caller' = [pc |-> "idle", op |-> "none", n |-> caller.n + 1]
  /\ ret' = [op |-> "Output", err |-> ret.err]
  /\ UNCHANGED <<cfgVars, ctxDone, path, lifeVars, stdin, stdout, stderr, chanVars,
                 taskVars, hist>>

\* the pipe calls of a caller that keeps what they return: the pipe, or nil
StdinPipeKept ==
  /\ StdinPipeCall
  /\ out' = [op |-> "StdinPipe",
             pipe |-> IF stdin = NilRW /\ process = <<>> THEN OwnBuffer("stdin") ELSE "nil"]

StdoutPipeKept ==
  /\ StdoutPipeCall
  /\ out' = [op |-> "StdoutPipe",
             pipe |-> IF stdout = NilRW /\ process = <<>> THEN OwnBuffer("stdout") ELSE "nil"]

StderrPipeKept ==
  /\ StderrPipeCall
  /\ out' = [op |-> "StderrPipe",
             pipe |-> IF stderr = NilRW /\ process = <<>> THEN OwnBuffer("stderr") ELSE "nil"]

\* the caller writes p to the pipe StdinPipe returned, while c.stdin still
\* holds that pipe
PipeWrite ==
  /\ CanCall
  /\ out.op = "StdinPipe" /\ out.pipe # "nil"
  /\ stdin.writer = out.pipe
  /\ \E p \in WriteChoices :
       /\ p # <<>>
       /\ sinks' = Write(stdin, sinks, p).sinks
       /\ ret' = [op |-> "Write", err |-> Write(stdin, sinks, p).err]
       /\ hist' = [hist EXCEPT !.fed = @ \o p]
  /\ caller' = [caller EXCEPT !.n = @ + 1]
  /\ UNCHANGED <<cfgVars, out, ctxDone, path, lifeVars, stdin, stdout, stderr, chanVars,
                 taskVars>>

\* the field that holds the pipe the caller has
PipeField == IF out.op = "StdoutPipe" THEN stdout ELSE stderr

\* io.ReadAll(pipe) on the pipe StdoutPipe or StderrPipe returned, while the
\* field still holds that pipe: Read after Read until the buffer is empty. On
\* a read-locked pipe every Read returns 0, nil and ReadAll does not return. A
\* ReadAll during a Write of the handler to the same bytes.Buffer is left out.
PipeRead ==
  /\ CanCall
  /\ out.op \in {"StdoutPipe", "StderrPipe"} /\ out.pipe # "nil"
  /\ PipeField.reader = out.pipe
  /\ ~PipeField.readLocked
  /\ ~(h.pc = "write" /\ h.tgt = out.pipe)
  /\ out' = [op |-> "ReadAll", pipe |-> out.pipe, bytes |-> Bytes(PipeField, sinks).bytes]
  /\ sinks' = Bytes(PipeField, sinks).sinks
  /\ ret' = [op |-> "ReadAll", err |-> NoErr]
  /\ caller' = [caller EXCEPT !.n = @ + 1]
  /\ UNCHANGED <<cfgVars, ctxDone, path, lifeVars, stdin, stdout, stderr, chanVars,
                 taskVars, hist>>

\* FuncCmd.Stdout / FuncCmd.Stderr: the writer inside the wrapper
Stdout == IF stdout # NilRW THEN stdout.writer ELSE "nil"

Stderr == IF stderr # NilRW THEN stderr.writer ELSE "nil"

\* c.Stdout()
CallStdout ==
  /\ CanCall
  /\ out' = [op |-> "Stdout", w |-> Stdout]
  /\ Returned
  /\ UNCHANGED <<cfgVars, ctxDone, path, lifeVars, ioVars, chanVars, taskVars, ret, hist>>

\* c.Stderr()
CallStderr ==
  /\ CanCall
  /\ out' = [op |-> "Stderr", w |-> Stderr]
  /\ Returned
  /\ UNCHANGED <<cfgVars, ctxDone, path, lifeVars, ioVars, chanVars, taskVars, ret, hist>>

\* the handler's io.ReadAll(fc.stdin), one Read of it: what the buffer holds
\* goes to the handler, and the Read that finds it empty ends the ReadAll. On
\* a read-locked stdin every Read returns 0, nil and ReadAll does not end.
HandlerRead ==
  /\ HandlerRunning
  /\ HandlerOp.via = "read"
  /\ stdin # NilRW
  /\ ~stdin.readLocked
  /\ IF sinks[stdin.reader] = <<>>
     THEN /\ h' = [h EXCEPT !.i = @ + 1]
          /\ UNCHANGED <<sinks, hist>>
     ELSE /\ hist' = [hist EXCEPT !.got = @ \o sinks[stdin.reader]]
          /\ sinks' = [sinks EXCEPT ![stdin.reader] = <<>>]
          /\ UNCHANGED h
  /\ UNCHANGED <<cfgVars, out, ctxDone, path, lifeVars, stdin, stdout, stderr, chanVars,
                 w, caller, ret>>

NextIO ==
  \/ Start \/ Run \/ RunWait \/ WaitRecvCtx \/ WaitRecvExit
  \/ Output \/ OutputWait \/ OutputBytes
  \/ CombinedOutput \/ CombinedOutputWait \/ CombinedOutputBytes
  \/ StdinPipeKept \/ StdoutPipeKept \/ StderrPipeKept
  \/ SetStdin \/ SetStdout \/ SetStderr
  \/ CallStdout \/ CallStderr
  \/ PipeWrite \/ PipeRead
  \/ CtxFire
  \/ HandlerSkip \/ HandlerWriteCheck \/ HandlerWriteSink \/ HandlerWriteAccessor
  \/ HandlerRead \/ HandlerReturn
  \/ WatcherSelectCtx \/ WatcherSelectDone
  \/ WatcherLockStdin \/ WatcherLockStdout \/ WatcherLockStderr
  \/ WatcherPublishCancel \/ WatcherPublishNil

SpecIO == InitIO /\ [][NextIO]_vars

----------------------------------------------------------------------------
(* The rendering of a command: Command, then SetPath, SetArgs and Start,   *)
(* which change what String reads, and String                              *)

\* strings.Join(list, " ")
RECURSIVE Join(_)
Join(list) ==
  IF list = <<>> THEN ""
  ELSE IF Len(list) = 1 THEN Cat(list[1])
  ELSE Cat(list[1]) \o " " \o Join(Tail(list))

\* String: for _, a := range rest { b.WriteByte(' '); b.WriteString(a) }
RECURSIVE WriteArgs(_)
WriteArgs(rest) ==
  IF rest = <<>> THEN "" ELSE " " \o Cat(rest[1]) \o WriteArgs(Tail(rest))

\* String that renders the path alone when there is no argument vector
StringOfEmptyArgs(p, a, e) ==
  IF e # NoErr THEN [panic |-> FALSE, s |-> Join(a)]
  ELSE [panic |-> FALSE, s |-> Cat(p) \o WriteArgs(SubSeq(a, 2, Len(a)))]

\* FuncCmd.String on a command with path p, args a and err e: the string it
\* returns, or the panic of c.args[1:] on an empty slice
String(p, a, e) ==
  IF e # NoErr THEN [panic |-> FALSE, s |-> Join(a)]
  ELSE IF Len(a) < 1 THEN [panic |-> TRUE, s |-> ""]
  ELSE [panic |-> FALSE, s |-> Cat(p) \o WriteArgs(Tail(a))]

\* the arguments a command is built with
StrArgChoices == { <<>>, <<ArgA, ArgB>> }

\* the vectors SetArgs is called with: nil, a name alone, a name and arguments
ArgVectors == { <<>>, <<NameX>>, <<NameX, ArgB>> }

\* NewFuncExec(nil, WithBins(...)) and Command(name, arg...)
InitStr ==
  /\ bins \in BinsChoices
  /\ mux = NilMux
  /\ hasCtx = FALSE
  /\ ctxDone = FALSE
  /\ \E name \in RunNameChoices, arg \in StrArgChoices :
       /\ path = CommandPath(bins, name)
       /\ args = CommandArgs(name, arg)
       /\ err = CommandErr(bins, name)
  /\ env = NilEnv /\ envs = NilEnv
  /\ startErr = NoErr
  /\ process = <<>>
  /\ processState = FALSE
  /\ stdin = NilRW /\ stdout = NilRW /\ stderr = NilRW
  /\ sinks = [s \in SinkIds |-> <<>>]
  /\ exitCode = <<>>
  /\ ctxErr = <<>>
  /\ h = NoTask
  /\ w = "none"
  /\ caller = Idle
  /\ ret = [op |-> "none", err |-> NoErr]
  /\ out = NoOut
  /\ hist = [afterCancel |-> {}, starts |-> {}, reset |-> {},
             notStarted |-> FALSE, waited |-> FALSE, noMatch |-> FALSE]

\* c.SetArgs(a)
SetArgs ==
  /\ CanCall
  /\ \E a \in ArgVectors : args' = a
  /\ Returned
  /\ UNCHANGED <<bins, mux, hasCtx, env, envs, out, ctxDone, path, lifeVars, ioVars,
                 chanVars, taskVars, ret, hist>>

\* c.String()
CallCmdString ==
  /\ CanCall
  /\ out' = [op |-> "String", panic |-> String(path, args, err).panic,
             s |-> String(path, args, err).s]
  /\ Returned
  /\ UNCHANGED <<cfgVars, ctxDone, path, lifeVars, ioVars, chanVars, taskVars, ret, hist>>

NextStr == Start \/ SetPath \/ SetArgs \/ CallCmdString

SpecStr == InitStr /\ [][NextStr]_vars

----------------------------------------------------------------------------
(* The tasks of one command and the caller that waits for it: a runtime    *)
(* whose router has a handler for every command, a command with or without *)
(* a deadline, Start, Wait and Run, and one setter                         *)

\* routers with one handler, for every command
TaskMuxChoices == { NewMux(<<Matcher(Star, 1)>>), NewMux(<<Matcher(Star, 2)>>) }

\* NewFuncExec(mux) and Command("t", "a", "b") / CommandContext(ctx, "t", "a", "b")
InitTask ==
  /\ bins = NewFuncExec(<<>>)
  /\ mux \in TaskMuxChoices
  /\ hasCtx \in BOOLEAN
  /\ ctxDone = FALSE
  /\ path = CommandPath(bins, NameT)
  /\ args = CommandArgs(NameT, <<ArgA, ArgB>>)
  /\ err = CommandErr(bins, NameT)
  /\ env = NilEnv /\ envs = NilEnv
  /\ startErr = NoErr
  /\ process = <<>>
  /\ processState = FALSE
  /\ stdin = NilRW /\ stdout = NilRW /\ stderr = NilRW
  /\ sinks = [s \in SinkIds |-> <<>>]
  /\ exitCode = <<>>
  /\ ctxErr = <<>>
  /\ h = NoTask
  /\ w = "none"
  /\ caller = Idle
  /\ ret = [op |-> "none", err |-> NoErr]
  /\ out = NoOut
  /\ hist = [afterCancel |-> {}, starts |-> {}, reset |-> {},
             notStarted |-> FALSE, waited |-> FALSE, noMatch |-> FALSE]

NextTask ==
  \/ Start \/ Wait \/ WaitRecvCtx \/ WaitRecvExit \/ Run \/ RunWait
  \/ SetStdout
  \/ CtxFire
  \/ HandlerSkip \/ HandlerWriteCheck \/ HandlerWriteSink \/ HandlerWriteAccessor
  \/ HandlerReturn
  \/ WatcherSelectCtx \/ WatcherSelectDone
  \/ WatcherLockStdin \/ WatcherLockStdout \/ WatcherLockStderr
  \/ WatcherPublishCancel \/ WatcherPublishNil

SpecTask == InitTask /\ [][NextTask]_vars

\* The steps the scheduler owes a goroutine that can run: the code of Start's
\* two goroutines around the handler function, and the rest of a Wait or Run
\* once what it waits for is there. The handler function itself may run for
\* ever, and a deadline may never pass: their steps are owed nothing.
Scheduled ==
  \/ HandlerReturn
  \/ WatcherSelectCtx \/ WatcherSelectDone
  \/ WatcherLockStdin \/ WatcherLockStdout \/ WatcherLockStderr
  \/ WatcherPublishCancel \/ WatcherPublishNil
  \/ WaitRecvCtx \/ WaitRecvExit \/ RunWait

SpecLive == SpecTask /\ WF_vars(Scheduled)

----------------------------------------------------------------------------
(* Properties *)

\* a step in which Start runs, called directly or as the first half of Run
StartStep == Start \/ Run

\* a step in which Wait begins, called directly or as the second half of Run
WaitStep == Wait \/ RunWait

\* C3, as the specification states it: a Start on a command that is already started returns
\* "already started", leaves the handle as it was and launches no task.
C3_SecondStartAlreadyStarted ==
  [][ (StartStep /\ process # <<>>)
        => /\ ret'.err = ErrAlreadyStarted
           /\ process' = process
           /\ UNCHANGED taskVars ]_vars

\* C3, with the order of Start's checks: a Start on a command that is already started returns an
\* error, leaves the handle as it was and launches no task; the error is
\* "already started" unless the path is empty or an error is recorded on the
\* command, and then it is "no command", respectively the recorded error.
C3_SecondStart ==
  [][ (StartStep /\ process # <<>>)
        => /\ ret'.err = IF err # NoErr THEN err
                         ELSE IF path = <<>> THEN ErrNoCommand
                         ELSE ErrAlreadyStarted
           /\ caller'.pc = "idle"
           /\ process' = process
           /\ UNCHANGED <<taskVars, startErr>> ]_vars

C3_Witness ==
  /\ ret = [op |-> "Start", err |-> ErrAlreadyStarted]
  /\ process # <<>>
  /\ h.pc # "none"

\* C4: a Wait on a command with no handle returns "not started" at once and
\* records nothing: no process state, nothing taken from or put into the
\* channels, the command otherwise as it was, so that Start and Wait can follow.
C4_WaitNotStarted ==
  [][ (Wait /\ process = <<>>)
        => /\ ret' = [op |-> "Wait", err |-> ErrNotStarted]
           /\ caller'.pc = "idle"
           /\ processState' = FALSE
           /\ UNCHANGED <<path, lifeVars, ioVars, chanVars, taskVars>> ]_vars

\* a Wait before Start was refused, and a later Start and Wait then ran to success
C4_Witness ==
  /\ hist.notStarted
  /\ processState
  /\ ret = [op |-> "Wait", err |-> NoErr]

\* C5, as the specification states it: on a started command, every Wait after the first
\* returns "already waited" at once, and the process state, once set, stays set.
C5_SecondWaitAlreadyWaited ==
  [][ /\ (WaitStep /\ process # <<>> /\ hist.waited)
          => (ret'.err = ErrWaitCalled /\ caller'.pc = "idle")
      /\ processState => processState' ]_vars

\* C5, with the order of Wait's checks: on a started command for which a handler was launched, every
\* Wait after the first returns "already waited" at once; on one whose Start
\* recorded a start failure, every Wait returns that failure and no process
\* state is ever recorded; the process state, once set, stays set.
C5_SecondWait ==
  [][ /\ (WaitStep /\ process # <<>> /\ hist.waited)
          => /\ ret'.err = IF startErr # NoErr THEN ErrStartFailure ELSE ErrWaitCalled
             /\ caller'.pc = "idle"
             /\ processState' = processState
             /\ UNCHANGED chanVars
      /\ (startErr # NoErr) => ~processState'
      /\ processState => processState' ]_vars

C5_Witness ==
  /\ ret = [op |-> "Wait", err |-> ErrWaitCalled]
  /\ processState
  /\ hist.waited

\* C6: when no matcher matches at Start (or there is no router), Start
\* returns no error and assigns a handle, no task is ever launched, and every
\* Wait returns "exit status 1" at once, taking nothing from the channels.
C6_NoHandler ==
  [][ /\ (StartStep /\ StartError = NoErr /\ NoMatch)
          => /\ process' # <<>>
             /\ Start => ret' = [op |-> "Start", err |-> NoErr]
             /\ Run => caller'.pc = "runWait"
             /\ UNCHANGED <<taskVars, chanVars>>
      /\ (WaitStep /\ hist.noMatch)
          => /\ ret'.err = "exit status 1"
             /\ caller'.pc = "idle"
             /\ UNCHANGED <<taskVars, chanVars>>
      /\ hist'.noMatch => (h'.pc = "none" /\ w' = "none") ]_vars

C6_Witness ==
  /\ mux.nil
  /\ hist.noMatch
  /\ process # <<>>
  /\ ret = [op |-> "Wait", err |-> "exit status 1"]

\* C7: when the deadline is absent or has not fired, the Wait of a started
\* command returns no error if the handler returned 0, "exit status 1" if it
\* returned 1 and "exit status 2" if it returned 2.
C7_ExitStatus ==
  [][ ((WaitRecvCtx \/ WaitRecvExit) /\ caller'.pc = "idle" /\ ~ctxDone)
        => /\ Handlers[h.fn].status \in {0, 1, 2}
           /\ Handlers[h.fn].status = 0 => ret'.err = NoErr
           /\ Handlers[h.fn].status = 1 => ret'.err = "exit status 1"
           /\ Handlers[h.fn].status = 2 => ret'.err = "exit status 2" ]_vars

C7_Witness ==
  /\ hasCtx /\ ~ctxDone
  /\ processState
  /\ ret = [op |-> "Wait", err |-> "exit status 2"]

\* C8: Start returns an error and changes nothing of the lifecycle (handle,
\* start failure, process state, tasks, channels, I/O) when the path is empty,
\* an error is recorded, the handle is set or the deadline has already fired.
C8_StartFailsWithoutTransition ==
  [][ (StartStep /\ (path = <<>> \/ err # NoErr \/ process # <<>> \/ (hasCtx /\ ctxDone)))
        => /\ ret'.err # NoErr
           /\ caller'.pc = "idle"
           /\ UNCHANGED <<startErr, process, processState, taskVars, ioVars, chanVars>> ]_vars

\* Start was refused for a deadline that had fired, with a channel attached
C8_Witness ==
  /\ ret = [op |-> "Start", err |-> CtxErrValue]
  /\ process = <<>>
  /\ stdout # NilRW

\* C9: after a Start that returned no error the handle is set and its Pid
\* is not zero.
C9_PidNonZero ==
  ("ok" \in hist.starts) => (process # <<>> /\ process[1] # 0)

\* C10, as the specification states it: the handle is set iff some Start has completed
\* without a resolution / lookup error, and no state has both a recorded
\* error and a handle.
C10_HandleIffNoResolutionError ==
  /\ (process # <<>>) <=> (hist.starts \cap {"ok", "other"} # {})
  /\ ~(err # NoErr /\ process # <<>>)

\* C10, with every error Start returns: the handle is set iff some Start has returned no error; the
\* recorded error is never cleared, and once it is recorded on a command with
\* no handle the handle stays empty; an error and a handle are both present
\* only after a Start on a started command whose path had been set to empty,
\* which records "no command".
C10_HandleIffStartSucceeded ==
  [][ /\ (process # <<>>) <=> ("ok" \in hist.starts)
      /\ (process' # <<>>) <=> ("ok" \in hist'.starts)
      /\ (err # NoErr) => (err' = err)
      /\ (err # NoErr /\ process = <<>>) => (process' = <<>>)
      /\ (err' # NoErr /\ process' # <<>>)
           => /\ err' = ErrNoCommand
              /\ err = err' \/ (StartStep /\ path = <<>> /\ process # <<>>) ]_vars

C10_Witness ==
  /\ process # <<>>
  /\ "ok" \in hist.starts
  /\ err = ErrNoCommand

\* the handler's byte b is in what some writer received
InOutput(b) == \E s \in SinkIds : Contains(sinks[s], b)

\* C1, in the form its test has: once Wait (or Run) has returned the
\* deadline's error, and the caller has not replaced a channel since Start,
\* no byte of a write that the handler begins from then on, which is after
\* the deadline fired, is in the output.
C1_NoOutputAfterCancel ==
  (WaitCancelled /\ hist.reset = {}) => \A b \in hist.afterCancel : ~InOutput(b)

\* the watcher's cancellation outcome is in the interrupt channel, or Wait
\* has returned it
CancelPublished == ctxErr = <<CtxErrValue>> \/ WaitCancelled

Locked(stream) ==
  IF stream = "stdin" THEN stdin = NilRW \/ stdin.readLocked
  ELSE IF stream = "stdout" THEN stdout = NilRW \/ stdout.writeLocked
  ELSE stderr = NilRW \/ stderr.writeLocked

C11_MatchByBaseName ==
  (out.op \in {"pat.Match", "Pattern.Match"} /\ out.pat.Args = <<>> /\ out.pat.Cmd # Star)
    => (out.ok <=> Base(out.pat.Cmd) = Base(path))

\* the set of the strings of a list
ArgSet(list) == { list[i] : i \in 1..Len(list) }

\* C12: a name+arguments pattern matches exactly when its name part matches
\* (wildcard, or the base names of the pattern's command string and of the
\* resolved path are equal) and the set of its arguments is a subset of the
\* set of the command's arguments after args[0].
C12_NameAndArgumentSubset ==
  (out.op = "Pattern.Match")
    => (out.ok <=> /\ out.pat.Cmd = Star \/ Base(out.pat.Cmd) = Base(path)
                   /\ ArgSet(out.pat.Args) \subseteq ArgSet(Tail(args)))

\* C12, the part about the arguments: a name+arguments pattern matches
\* exactly when the pattern with the same command string and no arguments
\* matches and the set of its arguments is a subset of the set of the
\* command's arguments after args[0].
C12_ArgumentSubsetGivenName ==
  (out.op = "Pattern.Match")
    => (out.ok <=> /\ PatternMatch(NewPattern(out.pat.Cmd, <<>>), path, args)
                   /\ ArgSet(out.pat.Args) \subseteq ArgSet(Tail(args)))

\* a pattern whose arguments are in another order than the command's, which
\* has one more, matched
C12_Witness ==
  /\ out.op = "Pattern.Match"
  /\ out.ok
  /\ out.pat = NewPattern(NameT, <<ArgB, ArgA>>)
  /\ args = <<NameT, ArgB, ArgAB, ArgA>>

\* C13: the wildcard pattern with no required arguments matches every
\* command, whatever its path and its arguments.
C13_WildcardMatchesAll ==
  (out.op \in {"pat.Match", "Pattern.Match"} /\ out.pat = NewPattern(Star, <<>>))
    => out.ok

\* the wildcard matched a command with a resolved path and no arguments
C13_Witness ==
  /\ out = [op |-> "pat.Match", pat |-> NewPattern(Star, <<>>), ok |-> TRUE]
  /\ path = PathBT
  /\ args = <<NameT>>

\* C14: findHandler returns the handler of the earliest registration whose
\* pattern matches the command, and none when nothing is registered or no
\* pattern matches; HandleFunc appends one registration and leaves the
\* earlier ones, and their order, as they were.
C14_EarliestMatchWins ==
  [][ /\ CallFindHandler
          => LET ms == mux.matchers
                 M == {i \in 1..Len(ms) : ms[i].pat = Star \/ Base(ms[i].pat) = path}
             IN  IF M = {} THEN out'.fn = 0
                 ELSE \E i \in M : (\A j \in M : i <= j) /\ out'.fn = ms[i].handler
      /\ CallHandleFunc
          => /\ Len(mux'.matchers) = Len(mux.matchers) + 1
             /\ SubSeq(mux'.matchers, 1, Len(mux.matchers)) = mux.matchers ]_vars

\* of two registrations that both match, the earlier one was returned
C14_Witness ==
  /\ mux.matchers = <<Matcher(Star, 2), Matcher(NameT, 1)>>
  /\ path = NameT
  /\ out = [op |-> "findHandler", fn |-> 2]

\* C15: the router NewFuncMapMux builds from a map holds every entry of the
\* map once, the "*" entry last; so for a command that some key other than
\* "*" matches, findHandler returns the handler of such a key and not the
\* wildcard's, in whatever order the map was iterated.
C15_WildcardRegisteredLast ==
  [][ CallNewFuncMapMux
        => LET ms == mux'.matchers
               fm == out'.funcMap
               Specific == {k \in DOMAIN fm \ {Star} : Base(k) = path}
           IN  /\ \A i \in 1..Len(ms) : ms[i].pat = Star => i = Len(ms)
               /\ Len(ms) = Cardinality(DOMAIN fm)
               /\ \A k \in DOMAIN fm : \E i \in 1..Len(ms) : ms[i] = Matcher(k, fm[k])
               /\ Specific # {}
                    => /\ \E k \in Specific : findHandler(mux', path) = fm[k]
                       /\ findHandler(mux', path) # KeyHandler(Star) ]_vars

\* a router built from a map with "*" and three names, for a command that
\* two of the names match
C15_Witness ==
  /\ out.op = "NewFuncMapMux"
  /\ DOMAIN out.funcMap = PatCmdChoices
  /\ Len(mux.matchers) = 4
  /\ mux.matchers[4].pat = Star
  /\ path = NameT

\* C16: LookPath for a name without a separator returns the whole entry of
\* the first binary of the allow-list whose base name is the name; if there
\* is none and the list holds the wildcard, the name itself; otherwise an
\* empty path and the "executable file not found in $PATH" error with the
\* name. A binary with the name wins over the wildcard wherever that sits.
C16_LookPathBareName ==
  (out.op = "LookPath" /\ \A i \in 1..Len(out.file) : out.file[i] # "/")
    => LET I == {i \in 1..Len(bins) : Base(bins[i]) = out.file}
       IN  IF I # {}
           THEN /\ \E i \in I : (\A j \in I : i <= j) /\ out.path = bins[i]
                /\ out.err = NoErr
           ELSE IF \E i \in 1..Len(bins) : bins[i] = Star
           THEN out.path = out.file /\ out.err = NoErr
           ELSE /\ out.path = <<>>
                /\ out.err = "exec: \"" \o Cat(out.file)
                                \o "\": executable file not found in $PATH"

\* a binary with the name was returned though the wildcard comes before it
C16_Witness ==
  /\ bins = <<Star, PathBT>>
  /\ out = [op |-> "LookPath", file |-> NameT, path |-> PathBT, err |-> NoErr]

\* C17: LookPath for a name with a separator returns the name itself exactly
\* when the allow-list holds that very string or the wildcard; otherwise it
\* returns an empty path and the "no such file or directory" error. A binary
\* that only has the same base name does not resolve it.
C17_LookPathWithSeparator ==
  (out.op = "LookPath" /\ \E i \in 1..Len(out.file) : out.file[i] = "/")
    => IF \E i \in 1..Len(bins) : bins[i] = out.file \/ bins[i] = Star
       THEN out.path = out.file /\ out.err = NoErr
       ELSE /\ out.path = <<>>
            /\ out.err = "exec: \"" \o Cat(out.file) \o "\": stat " \o Cat(out.file)
                            \o ": no such file or directory"

\* a name with a separator was refused though binaries with its base name
\* are allowed
C17_Witness ==
  /\ bins = <<PathCT, NameT>>
  /\ out.op = "LookPath"
  /\ out.file = PathBT
  /\ out.path = <<>>
  /\ out.err # NoErr

\* the bytes of all the writes of handler fn, in the order it makes them
AllWrites(fn) == [i \in 1..Len(Handlers[fn].ops) |-> Handlers[fn].ops[i].b]

\* C20: when the Run inside CombinedOutput returned what the handler's
\* status gives (no error for 0, "exit status N" for N), the bytes
\* CombinedOutput returns are all the writes of the handler, to stdout and
\* to stderr, in the order the handler made them.
C20_CombinedInWriteOrder ==
  [][ (/\ CombinedOutputBytes
       /\ h.fn # 0
       /\ ret.err = IF Handlers[h.fn].status = 0 THEN NoErr
                    ELSE "exit status " \o ToString(Handlers[h.fn].status))
        => out'.bytes = AllWrites(h.fn) ]_vars

\* a handler wrote A to stdout, then E to stderr, and returned 2
C20_Witness ==
  /\ out = [op |-> "CombinedOutput", bytes |-> <<"A", "E">>]
  /\ ret = [op |-> "CombinedOutput", err |-> "exit status 2"]

\* the command was built for name, and no call has returned a value since
BuiltFor(name) == out.op = "Command" /\ out.name = name

\* the allow-list resolves name neither by an entry nor by the wildcard
Unresolvable(name) ==
  /\ name # <<>>
  /\ ~\E i \in 1..Len(bins) : bins[i] = Star
  /\ IF \E i \in 1..Len(name) : name[i] = "/"
     THEN ~\E i \in 1..Len(bins) : bins[i] = name
     ELSE ~\E i \in 1..Len(bins) : Base(bins[i]) = name

\* C18: a command built for a name the allow-list does not resolve has the
\* resolution error recorded, the requested name as its path and
\* [name, args...] as its args; Start, Run and CombinedOutput return exactly
\* the recorded error and assign no handle.
C18_ResolutionErrorDeferred ==
  [][ \A name \in RunNameChoices :
        ((StartStep \/ CombinedOutput) /\ BuiltFor(name) /\ Unresolvable(name))
          => /\ err # NoErr
             /\ path = name
             /\ args = <<name>> \o out.arg
             /\ ret'.err = err
             /\ process' = <<>> ]_vars

\* C18, for the names without a separator: the same, and the recorded error
\* is the "executable file not found in $PATH" error with the name.
C18_BareNameErrorDeferred ==
  [][ \A name \in RunNameChoices :
        ((StartStep \/ CombinedOutput) /\ BuiltFor(name) /\ Unresolvable(name)
           /\ \A i \in 1..Len(name) : name[i] # "/")
          => /\ err = "exec: \"" \o Cat(name) \o "\": executable file not found in $PATH"
             /\ path = name
             /\ args = <<name>> \o out.arg
             /\ ret'.err = err
             /\ process' = <<>>
             /\ UNCHANGED <<err, startErr, taskVars, chanVars>> ]_vars

\* Start returned the error recorded when the command was built for x
C18_Witness ==
  /\ BuiltFor(NameX)
  /\ bins = <<PathBT>>
  /\ ret = [op |-> "Start", err |-> ErrNotFound(NameX)]
  /\ process = <<>>

\* C19: a command built for a name with a separator that the allow-list
\* resolves neither by an entry nor by the wildcard has the "no such file or
\* directory" error recorded, and Start returns it and assigns no handle.
C19_SeparatorNameRefused ==
  [][ \A name \in RunNameChoices :
        (StartStep /\ BuiltFor(name) /\ Unresolvable(name)
           /\ \E i \in 1..Len(name) : name[i] = "/")
          => /\ err = ErrNoSuchFile(name)
             /\ ret'.err = ErrNoSuchFile(name)
             /\ process = <<>> /\ process' = <<>> ]_vars

\* C30: when the Start in Run fails, Run returns Start's error and Wait is not
\* attempted: no outcome is recorded and nothing is received from the two
\* channels; otherwise Run returns what Wait returns: the error of Wait's
\* checks, or else the deadline's error or the handler's exit status that
\* Wait receives.
C30_RunShortCircuitsOnStartError ==
  [][ /\ (Run /\ StartError # NoErr)
          => /\ ret' = [op |-> "Run", err |-> StartError]
             /\ caller'.pc = "idle"
             /\ UNCHANGED <<processState, exitCode, ctxErr>>
             /\ hist'.waited = hist.waited /\ hist'.notStarted = hist.notStarted
      /\ (Run /\ StartError = NoErr) => (caller'.pc = "runWait" /\ ret' = ret)
      /\ (RunWait /\ WaitError # NoErr) => ret' = [op |-> "Run", err |-> WaitError]
      /\ (RunWait /\ WaitError = NoErr)
          => (processState' /\ caller'.pc \in {"waitCtx", "waitExit"} /\ ret' = ret)
      /\ (WaitRecvCtx /\ caller.op = "Run")
          => IF Head(ctxErr) # NoErr
             THEN ret' = [op |-> "Run", err |-> Head(ctxErr)]
             ELSE caller'.pc = "waitExit" /\ ret' = ret
      /\ (WaitRecvExit /\ caller.op = "Run")
          => ret' = [op |-> "Run",
                     err |-> IF Head(exitCode) = 0 THEN NoErr
                             ELSE "exit status " \o ToString(Head(exitCode))] ]_vars

\* Run has returned the resolution error and no Wait has looked at the command
C30_Witness ==
  /\ ret = [op |-> "Run", err |-> ErrNotFound(NameX)]
  /\ caller.pc = "idle"
  /\ ~processState
  /\ ~hist.waited /\ ~hist.notStarted

\* C25: on a write-locked channel Write(p) returns (len(p), nil) and leaves
\* the contents of the underlying writer as they were; on a read-locked
\* channel Read(p) returns (0, nil), leaves p as the caller made it and takes
\* nothing out of the underlying reader; on a channel that is not locked
\* Write appends p to the writer and Read moves what fits from the reader
\* into p.
C25_LockedCallsAreNoOps ==
  [][ /\ (CallWrite /\ stdout.writeLocked)
          => /\ out'.n = Len(out'.p) /\ out'.err = NoErr
             /\ sinks' = sinks
      /\ (CallRead /\ stdout.readLocked)
          => /\ out'.n = 0 /\ out'.err = NoErr
             /\ out'.p = out'.before
             /\ sinks' = sinks
      /\ (CallWrite /\ ~stdout.writeLocked)
          => /\ out'.n = Len(out'.p) /\ out'.err = NoErr
             /\ sinks'[stdout.writer] = sinks[stdout.writer] \o out'.p
      /\ (CallRead /\ ~stdout.readLocked)
          => /\ SubSeq(out'.p, 1, out'.n) \o sinks'[stdout.reader] = sinks[stdout.reader]
             /\ SubSeq(out'.p, out'.n + 1, Len(out'.p))
                  = SubSeq(out'.before, out'.n + 1, Len(out'.before))
             /\ (out'.n < Len(out'.p) => sinks'[stdout.reader] = <<>>) ]_vars

\* a Write of two bytes on a channel locked with LockWrite left the buffer
\* as it was
C25_Witness ==
  /\ out.op = "Write" /\ out.p = <<"C", "D">> /\ out.n = 2
  /\ stdout = LockWrite(newLockableBuffer(2, OwnBuffer("stdout")))
  /\ sinks[stdout.writer] = <<"B", "A">>

\* C26: no call on a channel makes its write-locked flag or its read-locked
\* flag false again, and a LockRead or LockWrite changes neither what the
\* caller has read nor what the underlying buffer holds.
C26_LocksAreMonotonic ==
  [][ /\ stdout.writeLocked => stdout'.writeLocked
      /\ stdout.readLocked => stdout'.readLocked
      /\ (CallLockRead \/ CallLockWrite) => (hist'.read = hist.read /\ sinks' = sinks)
    ]_vars

\* the caller read a byte, locked the channel for reading and read again
C26_Witness ==
  /\ hist.read = <<"B">>
  /\ stdout.readLocked /\ ~stdout.writeLocked
  /\ out.op = "Read" /\ out.n = 0 /\ out.before = <<"_">>
  /\ sinks[stdout.reader] = <<"A">>

\* the name of an entry: what is before its first "=", all of it when it has none
EntryName(e) ==
  LET k == CHOOSE k \in 0..Len(e) :
             /\ \A i \in 1..k : e[i] # "="
             /\ k = Len(e) \/ e[k + 1] = "="
  IN SubSeq(e, 1, k)

\* the value of an entry: what is after its first "=", empty when it has none
EntryValue(e) == SubSeq(e, Len(EntryName(e)) + 2, Len(e))

\* the names of the entries of a list
EntryNames(list) == { EntryName(list[i]) : i \in 1..Len(list) }

\* the value of the last entry of the list for the name
LastValue(list, name) ==
  LET i == CHOOSE i \in 1..Len(list) :
             /\ EntryName(list[i]) = name
             /\ \A j \in (i + 1)..Len(list) : EntryName(list[j]) # name
  IN EntryValue(list[i])

\* C28: Env after SetEnv(list) returns one NAME=VALUE string for each distinct
\* name (of the list, and of the env SetEnv found), in ascending order of the
\* whole strings; for a name of the list VALUE is what follows the first "=" of
\* its last entry, empty when that entry has no "=".
C28_EnvSortedLastWins ==
  [][ CallEnv =>
        LET names == EntryNames(hist.last) \cup DOMAIN hist.prev.map
            L == out'.list
        IN /\ Len(L) = Cardinality(names)
           /\ \A n \in names :
                \E i \in 1..Len(L) :
                  L[i] = n \o <<"=">> \o (IF n \in EntryNames(hist.last)
                                         THEN LastValue(hist.last, n)
                                         ELSE hist.prev.map[n])
           /\ \A i \in 1..(Len(L) - 1) : StringLess(L[i], L[i + 1]) ]_vars

\* Env after SetEnv(["B=A=1", "A1=B"]) on a new command
C28_Witness ==
  /\ out = [op |-> "Env", list |-> << <<"A", "1", "=", "B">>, <<"B", "=", "A", "=", "1">> >>]
  /\ hist.last = << <<"B", "=", "A", "=", "1">>, <<"A", "1", "=", "B">> >>
  /\ hist.prev = NilEnv

\* C29: Environ has, for every name, the command's override when there is
\* one and otherwise the value of the runtime's environment.
C29_EnvironFallsBackPerName ==
  [][ CallEnviron =>
        /\ \A n \in DOMAIN env.map :
             \E i \in 1..Len(out'.list) : out'.list[i] = n \o <<"=">> \o env.map[n]
        /\ \A n \in (DOMAIN envs.map) \ (DOMAIN env.map) :
             \E i \in 1..Len(out'.list) : out'.list[i] = n \o <<"=">> \o envs.map[n] ]_vars

\* C29, for a command with no overrides: Environ is the runtime's environment
C29_EnvironWithoutOverrides ==
  [][ (CallEnviron /\ env.nil) => out'.list = fmtEnv(envs) ]_vars

\* the state of the command that a refused call must leave alone
Attached == <<process, startErr, h, w, stdin, stdout, stderr, sinks>>

\* C21: Output on a command with stdout attached, and CombinedOutput on one
\* with stdout or stderr attached, return the "already set" error, do not
\* start the command (no handle, no task) and leave the three channels and
\* what they hold as they were.
C21_CaptureRefusedWhenAttached ==
  [][ /\ (Output /\ stdout # NilRW)
          => /\ ret' = [op |-> "Output", err |-> "exec: Stdout already set"]
             /\ UNCHANGED Attached
      /\ (CombinedOutput /\ (stdout # NilRW \/ stderr # NilRW))
          => /\ ret'.op = "CombinedOutput"
             /\ ret'.err = IF stdout # NilRW THEN "exec: Stdout already set"
                           ELSE "exec: Stderr already set"
             /\ UNCHANGED Attached ]_vars

\* CombinedOutput was refused on a command with only stderr attached
C21_Witness ==
  /\ ret = [op |-> "CombinedOutput", err |-> "exec: Stderr already set"]
  /\ stdout = NilRW /\ stderr # NilRW
  /\ process = <<>> /\ h = NoTask

\* the bytes a handler writes to a stream, in its order
RECURSIVE StreamWrites(_, _)
StreamWrites(ops, stream) ==
  IF ops = <<>> THEN <<>>
  ELSE (IF Head(ops).stream = stream /\ Head(ops).via # "read" THEN <<Head(ops).b>> ELSE <<>>)
         \o StreamWrites(Tail(ops), stream)

\* the Run of the call has returned what the handler returned
RunReturnedHandlerOutcome ==
  /\ h.fn # 0
  /\ ret.err = IF Handlers[h.fn].status = 0 THEN NoErr
               ELSE "exit status " \o ToString(Handlers[h.fn].status)

\* C22: when Output is called with no stderr attached and the handler writes
\* to stderr and returns a non-zero status, the error Output returns has the
\* bytes the handler wrote to stderr in it.
C22_OutputErrorCarriesStderr ==
  [][ (/\ OutputBytes
       /\ caller.op = "OutputCaptureErr"
       /\ RunReturnedHandlerOutcome
       /\ Handlers[h.fn].status # 0
       /\ StreamWrites(Handlers[h.fn].ops, "stderr") # <<>>)
        => out'.errStderr = [has |-> TRUE,
                             bytes |-> StreamWrites(Handlers[h.fn].ops, "stderr")] ]_vars

\* C23: StdinPipe, StdoutPipe and StderrPipe return an error and no pipe, and
\* leave the three channels as they were, when their channel is already set
\* or the command has a handle.
C23_PipeRefused ==
  [][ /\ (StdinPipeKept /\ (stdin # NilRW \/ process # <<>>))
          => /\ ret'.op = "StdinPipe" /\ ret'.err # NoErr /\ out'.pipe = "nil"
             /\ UNCHANGED <<stdin, stdout, stderr>>
      /\ (StdoutPipeKept /\ (stdout # NilRW \/ process # <<>>))
          => /\ ret'.op = "StdoutPipe" /\ ret'.err # NoErr /\ out'.pipe = "nil"
             /\ UNCHANGED <<stdin, stdout, stderr>>
      /\ (StderrPipeKept /\ (stderr # NilRW \/ process # <<>>))
          => /\ ret'.op = "StderrPipe" /\ ret'.err # NoErr /\ out'.pipe = "nil"
             /\ UNCHANGED <<stdin, stdout, stderr>> ]_vars

\* StdoutPipe was refused on a started command with no stdout attached
C23_Witness ==
  /\ ret = [op |-> "StdoutPipe", err |-> "exec: StdoutPipe after process started"]
  /\ out = [op |-> "StdoutPipe", pipe |-> "nil"]
  /\ stdout = NilRW
  /\ process # <<>>

C24_WitnessStdin ==
  /\ hist.fed = <<"C", "D">> /\ hist.got = <<"C", "D">>
  /\ ret = [op |-> "Run", err |-> NoErr]

\* C27: SetStdout and SetStderr install a wrapper that is not write-locked,
\* whatever the lock of the wrapper they replace, around the writer they are
\* given, and Stdout() and Stderr() on a channel that was set return that
\* writer, not the wrapper.
C27_SettersWrapAccessorsUnwrap ==
  [][ /\ SetStdout => (~stdout'.writeLocked /\ stdout'.writer \in UserSinks)
      /\ SetStderr => (~stderr'.writeLocked /\ stderr'.writer \in UserSinks)
      /\ (CallStdout /\ stdout # NilRW /\ stdout.reader = "nil")
          => (out'.w \in UserSinks /\ out'.w = stdout.writer)
      /\ (CallStderr /\ stderr # NilRW /\ stderr.reader = "nil")
          => (out'.w \in UserSinks /\ out'.w = stderr.writer) ]_vars

\* Output was cancelled and its two buffers locked; SetStdout then installed
\* an unlocked wrapper, and Stdout() returned the writer it was given
C27_Witness ==
  /\ out = [op |-> "Stdout", w |-> "w1"]
  /\ ret = [op |-> "Output", err |-> CtxErrValue]
  /\ ~stdout.writeLocked
  /\ stderr.writeLocked /\ stderr.writer = OwnBuffer("stderr")
  /\ "stdout" \in hist.reset

\* C31: String renders the argument vector joined by single spaces when an
\* error is recorded in the command, and otherwise the path followed by the
\* arguments after the first, joined by single spaces.
C31_StringRendering ==
  [][CallCmdString =>
       /\ ~out'.panic
       /\ out'.s = IF err # NoErr THEN Join(args)
                   ELSE Join(<<path>> \o SubSeq(args, 2, Len(args)))]_vars

\* String on a command whose argument vector is not empty, or that has an
\* error recorded, renders what C31 says
C31_StringRendersNonEmptyArgs ==
  [][CallCmdString /\ (args # <<>> \/ err # NoErr) =>
       /\ ~out'.panic
       /\ out'.s = IF err # NoErr THEN Join(args)
                   ELSE Join(<<path>> \o Tail(args))]_vars

\* C39: the handler a router built by NewFuncMapMux selects for the command
\* is the same for every order in which the iteration of the map can yield
\* its keys: it is determined by the map alone.
C39_SelectionIndependentOfIterationOrder ==
  [][CallNewFuncMapMux =>
       \A o \in IterationOrders(DOMAIN out'.funcMap) :
         findHandler(NewFuncMapMux(out'.funcMap, o), path) = findHandler(mux', path)]_vars

\* the selection is the same for every iteration order when no two keys of
\* the map have the same base name
C39_SelectionIndependentOfOrderDistinctBases ==
  [][CallNewFuncMapMux /\ (\A j, k \in DOMAIN out'.funcMap : Base(j) = Base(k) => j = k) =>
       \A o \in IterationOrders(DOMAIN out'.funcMap) :
         findHandler(NewFuncMapMux(out'.funcMap, o), path) = findHandler(mux', path)]_vars

\* C40: a runtime constructed without any allow-list entry resolves every
\* name asked for to itself, with no error; a runtime constructed with
\* entries, none of them the wildcard, refuses every name that no entry
\* matches (no entry is the name, and no entry has the name as its base name).
C40_DefaultWildcardElseReject ==
  out.op = "LookPath" =>
    /\ hist.withBins = <<>> => out.path = out.file /\ out.err = NoErr
    /\ ( /\ hist.withBins # <<>>
         /\ \A i \in 1..Len(hist.withBins) :
              /\ hist.withBins[i] # Star
              /\ hist.withBins[i] # out.file
              /\ Base(hist.withBins[i]) # out.file )
       => out.path = <<>> /\ out.err # NoErr

\* a runtime made without entries has resolved a name with separators to itself
C40_Witness ==
  /\ hist.withBins = <<>>
  /\ out = [op |-> "LookPath", file |-> PathBT, path |-> PathBT, err |-> NoErr]

\* a runtime made with entries and no wildcard has refused a bare name
C40_WitnessRejected ==
  /\ hist.withBins = <<PathCT, NameX>>
  /\ out.op = "LookPath" /\ out.file = PathBT /\ out.path = <<>>
  /\ out.err = ErrNoSuchFile(PathBT)

\* the handler function of the command has returned
FnReturned ==
  \/ h.pc = "run" /\ h.i > Len(Handlers[h.fn].ops)
  \/ h.pc \in {"sendDone", "end"}

\* C32: cancellation never ends the handler: nothing but its own steps moves
\* the handler task, also after Wait has returned the deadline's error; when
\* its function has returned, the exit-status channel has room for the status;
\* and, with and without a deadline, a handler task whose function has
\* returned eventually terminates.
C32_HandlerTaskTerminates ==
  /\ [][h' # h =>
          \/ HandlerSkip \/ HandlerWriteCheck \/ HandlerWriteSink \/ HandlerWriteAccessor
          \/ HandlerReturn \/ WatcherSelectDone
          \/ (h = NoTask /\ (Start \/ Run))]_vars
  /\ []((h.pc = "run" /\ h.i > Len(Handlers[h.fn].ops)) => exitCode = <<>>)
  /\ (FnReturned ~> h.pc = "end")

\* C32 without the end of the task: no step but its own moves the handler
\* task, and the exit-status channel has room when the function returns
C32_HandlerRunsOnAndPublishes ==
  /\ [][h' # h =>
          \/ HandlerSkip \/ HandlerWriteCheck \/ HandlerWriteSink \/ HandlerWriteAccessor
          \/ HandlerReturn \/ WatcherSelectDone
          \/ (h = NoTask /\ (Start \/ Run))]_vars
  /\ []((h.pc = "run" /\ h.i > Len(Handlers[h.fn].ops)) => exitCode = <<>>)

\* C32 for the one case in which the task ends: the command has a deadline
\* and the deadline does not pass
C32_TaskEndsWhileDeadlinePending ==
  (FnReturned /\ hasCtx /\ ~ctxDone) ~> (h.pc = "end" \/ ctxDone)

\* the watcher has taken the deadline's branch of its select: it is locking
\* the channels or publishing the deadline's error, or that error is in the
\* interrupt channel, or Wait has returned it
CancelTaken ==
  \/ w \in {"lockStdin", "lockStdout", "lockStderr", "pubCancel"}
  \/ ctxErr = <<CtxErrValue>>
  \/ WaitCancelled

\* C33: once the handler has returned and published its status while the
\* deadline has not passed, the deadline's branch is never taken: no channel
\* is locked by the watcher and Wait does not return the deadline's error,
\* whenever the deadline passes afterwards.
C33_PublishedBeforeDeadlineWins ==
  []((~ctxDone /\ h.pc \in {"sendDone", "end"}) =>
       [](/\ ~CancelTaken
          /\ ~stdin.readLocked /\ ~stdout.writeLocked /\ ~stderr.writeLocked))

\* C33 when the watcher has received the handler's done before the deadline
\* passes: the deadline's branch is never taken
C33_DoneReceivedBeforeDeadlineWins ==
  []((~ctxDone /\ h.pc = "end") =>
       [](/\ ~CancelTaken
          /\ ~stdin.readLocked /\ ~stdout.writeLocked /\ ~stderr.writeLocked))

\* C34: once Wait has returned the deadline's error, no Write of the handler
\* on the command's stdout or stderr changes the contents of the buffers
\* behind them, wherever the handler was in a Write (before its test of the
\* lock, or between the test and the write to the sink) when the watcher
\* locked the channels.
C34_BuffersFrozenAfterCancel ==
  [][(WaitCancelled /\ hist.reset = {} /\ ~HandlerWriteAccessor) =>
       /\ stdout # NilRW => sinks'[stdout.writer] = sinks[stdout.writer]
       /\ stderr # NilRW => sinks'[stderr.writer] = sinks[stderr.writer]]_vars

\* C35: once the deadline has fired and the watcher has locked the channels,
\* a write of the handler to the writer that Stdout() or Stderr() returns
\* leaves the sink behind the channel as it was.
C35_AccessorWritesDiscardedWhenLocked ==
  [][(/\ HandlerWriteAccessor
      /\ ctxDone
      /\ w \in {"pubCancel", "end"}
      /\ Stream(HandlerOp.stream).writeLocked) =>
       sinks' = sinks]_vars

\* C36: a command launches its tasks in one Start only, a handler task and,
\* only with a deadline, a watcher task; the exit-status channel and the
\* interrupt channel never hold more than one value, each is sent to at most
\* once (by the handler task when its function returns, by the watcher when
\* its select has chosen, and neither task comes back to its send), each is
\* received from only by Wait at its receive, and each is empty when its
\* producer comes to its send, so that no send blocks.
C36_TwoTasksOneValueEach ==
  /\ [](w # "none" => hasCtx /\ h # NoTask)
  /\ [](Len(exitCode) <= 1 /\ Len(ctxErr) <= 1)
  /\ []((h.pc = "run" /\ h.i > Len(Handlers[h.fn].ops)) => exitCode = <<>>)
  /\ [](w \in {"pubCancel", "pubNil"} => ctxErr = <<>>)
  /\ [][/\ process # <<>> => (h = NoTask => h' = NoTask) /\ (w = "none" => w' = "none")
        /\ (h # NoTask /\ h' # h) => h'.fn = h.fn /\ <<h'.pc, h'.i>> # <<"run", 1>>
        /\ h.pc \in {"sendDone", "end"} => h'.pc \in {"sendDone", "end"}
        /\ w = "end" => w' = "end"
        /\ Len(exitCode') > Len(exitCode) => h.pc = "run" /\ h'.pc = "sendDone"
        /\ Len(ctxErr') > Len(ctxErr) => w \in {"pubCancel", "pubNil"} /\ w' = "end"
        /\ Len(exitCode') < Len(exitCode) => caller.pc = "waitExit" /\ caller'.pc # "waitExit"
        /\ Len(ctxErr') < Len(ctxErr) => caller.pc = "waitCtx" /\ caller'.pc # "waitCtx"]_vars

\* both tasks of a command with a deadline have ended, each channel has had
\* its value, and Wait has received both and returned the handler's status
C36_Witness ==
  /\ hasCtx /\ h.pc = "end" /\ w = "end"
  /\ exitCode = <<>> /\ ctxErr = <<>>
  /\ processState
  /\ ret = [op |-> "Wait", err |-> ExitError(2)]

\* C38: for a command with a deadline, when Wait receives nil from the
\* interrupt channel, the status of the command's handler is in the
\* exit-status channel; and whenever Wait is at its receive of the exit
\* status after that, the status is there, so the receive does not block.
C38_StatusReadyAfterNilInterrupt ==
  /\ [][(WaitRecvCtx /\ Head(ctxErr) = NoErr) =>
          /\ exitCode = <<Handlers[h.fn].status>>
          /\ exitCode' = exitCode
          /\ caller'.pc = "waitExit"]_vars
  /\ []((hasCtx /\ caller.pc = "waitExit") => exitCode = <<Handlers[h.fn].status>>)

\* Wait has received nil from the watcher and is at its receive of the status
C38_Witness ==
  /\ hasCtx /\ caller.pc = "waitExit"
  /\ ctxErr = <<>> /\ w = "end" /\ h.pc = "end"
  /\ exitCode = <<2>>

\* the caller is inside Wait, at one of its two receives
InWait == caller.pc \in {"waitCtx", "waitExit"}

\* C37: when every goroutine that can run eventually does, a Wait on a
\* started command whose handler function has returned, or whose deadline has
\* passed, eventually returns (so with a deadline that passes it returns even
\* if the handler function never does); and a caller that cannot go on is in
\* Wait, at the receive from an empty interrupt channel or from an empty
\* exit-status channel.
C37_WaitEventuallyReturns ==
  /\ ((InWait /\ (FnReturned \/ ctxDone)) ~> ~InWait)
  /\ []((caller.pc # "idle" /\ ~ENABLED (WaitRecvCtx \/ WaitRecvExit \/ RunWait)) =>
          \/ caller.pc = "waitCtx" /\ ctxErr = <<>>
          \/ caller.pc = "waitExit" /\ exitCode = <<>>)

\* Wait has returned the deadline's error while the handler function is
\* still running
C37_Witness ==
  /\ WaitCancelled
  /\ h.pc = "run" /\ h.i = 1
  /\ caller.pc = "idle"

\* Wait has returned the status of a handler on a command without a deadline
C37_WitnessNoDeadline ==
  /\ ~hasCtx
  /\ ret = [op |-> "Wait", err |-> ExitError(2)]

====
